---- MODULE Spec2Model ----
(***************************************************************************)
(* invoice-alerts: the alert creation job (run_alerts), the alert flush    *)
(* job (flush_alerts) and the pure helpers they call (rule_matches,        *)
(* _pick_fee_details), over the invoice_alerts table.                      *)
(*                                                                         *)
(* Python values are tagged records: None, Num(n), Str(s), Bool(b),        *)
(* List(l).  A number n stands for n/100 (two decimals, so that the 0.01   *)
(* thresholds of rules.py are representable).  A string is a sequence of   *)
(* one-character strings.  A dict is a function from keys to values; a     *)
(* key that is absent reads as None (dict.get).                            *)
(***************************************************************************)
EXTENDS Integers, Sequences, FiniteSets, TLC

None == [k |-> "none"]
Num(n) == [k |-> "num", n |-> n]
Str(s) == [k |-> "str", s |-> s]
Bool(b) == [k |-> "bool", b |-> b]
List(l) == [k |-> "list", l |-> l]

\* dict.get(key)
Get(d, key) == IF key \in DOMAIN d THEN d[key] ELSE None

\* bool(v)
Truthy(v) ==
  CASE v.k = "none" -> FALSE
    [] v.k = "num" -> v.n # 0
    [] v.k = "str" -> Len(v.s) > 0
    [] v.k = "bool" -> v.b
    [] v.k = "list" -> Len(v.l) > 0

\* a or b
Or(a, b) == IF Truthy(a) THEN a ELSE b

\* ------------------------------------------------------------------ strings

UpperCase == <<"A","B","C","D","E","F","G","H","I","J","K","L","M",
               "N","O","P","Q","R","S","T","U","V","W","X","Y","Z">>
LowerCase == <<"a","b","c","d","e","f","g","h","i","j","k","l","m",
               "n","o","p","q","r","s","t","u","v","w","x","y","z">>
Digits == <<"0","1","2","3","4","5","6","7","8","9">>

\* The characters of the modelled texts in code-point order.
CharOrder == <<" ", "$", ",">> \o Digits \o UpperCase \o LowerCase

Ord(c) == CHOOSE i \in 1..Len(CharOrder) : CharOrder[i] = c

LowerChar(c) ==
  IF \E i \in 1..26 : UpperCase[i] = c
  THEN LowerCase[CHOOSE i \in 1..26 : UpperCase[i] = c]
  ELSE c

\* str.lower()
Lower(s) == [i \in 1..Len(s) |-> LowerChar(s[i])]

RECURSIVE LStrip(_)
LStrip(s) == IF s # <<>> /\ Head(s) = " " THEN LStrip(Tail(s)) ELSE s

RECURSIVE RStrip(_)
RStrip(s) ==
  IF s # <<>> /\ s[Len(s)] = " " THEN RStrip(SubSeq(s, 1, Len(s) - 1)) ELSE s

\* str.strip()
Strip(s) == RStrip(LStrip(s))

\* needle in hay
Contains(needle, hay) ==
  \E i \in 0..(Len(hay) - Len(needle)) : SubSeq(hay, i + 1, i + Len(needle)) = needle

\* a < b on strings (code-point order)
RECURSIVE StrLess(_, _)
StrLess(a, b) ==
  IF a = <<>> THEN b # <<>>
  ELSE IF b = <<>> THEN FALSE
  ELSE IF Head(a) = Head(b) THEN StrLess(Tail(a), Tail(b))
  ELSE Ord(Head(a)) < Ord(Head(b))

\* sorted(set of strings)
RECURSIVE Sorted(_)
Sorted(S) ==
  IF S = {} THEN <<>>
  ELSE LET m == CHOOSE x \in S : \A y \in S \ {x} : StrLess(x, y)
       IN <<m>> \o Sorted(S \ {m})

\* " ".join(parts)
RECURSIVE Join(_)
Join(parts) ==
  IF parts = <<>> THEN <<>>
  ELSE IF Len(parts) = 1 THEN parts[1]
  ELSE parts[1] \o <<" ">> \o Join(Tail(parts))

\* the text of a string
RECURSIVE Chars(_)
Chars(s) == IF s = <<>> THEN "" ELSE Head(s) \o Chars(Tail(s))

\* ", ".join(parts), as a text
RECURSIVE CommaJoin(_)
CommaJoin(parts) ==
  IF parts = <<>> THEN ""
  ELSE IF Len(parts) = 1 THEN Chars(parts[1])
  ELSE Chars(parts[1]) \o ", " \o CommaJoin(Tail(parts))

\* ------------------------------------------------------------------ numbers

IsDigit(c) == \E i \in 1..10 : Digits[i] = c
DigitVal(c) == (CHOOSE i \in 1..10 : Digits[i] = c) - 1

RECURSIVE DigitsValue(_)
DigitsValue(s) ==
  IF s = <<>> THEN 0 ELSE DigitsValue(SubSeq(s, 1, Len(s) - 1)) * 10 + DigitVal(s[Len(s)])

IsMoneyMark(c) == c = "," \/ c = "$"

\* float(s) of a text of the modelled alphabet: a run of digits, blanks around it
\* aside, parses to that whole number; anything else raises ValueError (None
\* here).
ParseFloat(s) ==
  IF Strip(s) # <<>> /\ \A i \in 1..Len(Strip(s)) : IsDigit(Strip(s)[i])
  THEN Num(DigitsValue(Strip(s)) * 100)
  ELSE None

\* _to_float: numbers as they are; strings stripped, "," and "$" removed, parsed;
\* every failure is None.
ToFloat(v) ==
  CASE v.k = "none" -> None
    [] v.k = "num" -> v
    [] v.k = "bool" -> Num(IF v.b THEN 100 ELSE 0)
    [] v.k = "str" ->
         LET s == Strip(v.s)
         IN IF s = <<>> THEN None
            ELSE ParseFloat(SelectSeq(s, LAMBDA c : ~IsMoneyMark(c)))
    [] v.k = "list" -> None

\* round(a * b, 2) of two numbers held in hundredths (ties to even).
RoundMul(a, b) ==
  LET p == a * b
      q == p \div 100
      r == p % 100
  IN IF r > 50 \/ (r = 50 /\ q % 2 = 1) THEN q + 1 ELSE q

\* _is_actionable_fee
IsActionableFee(fee_name, fee_amount) ==
  LET name_ok == Truthy(Str(Strip(Or(fee_name, Str(<<>>)).s)))
      amt == ToFloat(fee_amount)
  IN name_ok /\ amt # None /\ amt.n > 0

\* ------------------------------------------------------------------ rules.py

\* _norm: None is "", a string is stripped and lower-cased.
Norm(v) ==
  CASE v.k = "none" -> <<>>
    [] v.k = "str" -> Lower(Strip(v.s))

\* _listify
Listify(v) ==
  CASE v.k = "none" -> <<>>
    [] v.k = "list" -> v.l
    [] OTHER -> <<v>>

\* Fault: either flag enables the rule
IsRuleEnabledEither(rule) ==
  Truthy(Get(rule, "is_enabled")) \/ Truthy(Get(rule, "enabled"))

\* _is_rule_enabled (rules.py and main.py hold the same function)
IsRuleEnabled(rule) ==
  LET v == Get(rule, "is_enabled")
  IN Truthy(IF v = None THEN Get(rule, "enabled") ELSE v)

\* Fault: a line item counts as charged by its unit price
LineItemIsPriced(li) ==
  LET u == ToFloat(Get(li, "unit_price"))
  IN u # None /\ u.n > 0

\* _line_item_is_charged: total > 0.01
LineItemIsCharged(li) ==
  LET t == ToFloat(Get(li, "total"))
      total == IF t = None THEN 0 ELSE t.n
  IN total > 1

\* _is_waived_line_item
IsWaivedLineItem(li) ==
  LET q == ToFloat(Get(li, "quantity"))
      u == ToFloat(Get(li, "unit_price"))
      t == ToFloat(Get(li, "total"))
      qty == IF q = None THEN 0 ELSE q.n
      unit == IF u = None THEN 0 ELSE u.n
      total == IF t = None THEN 0 ELSE t.n
  IN qty > 0 /\ unit > 0 /\ total < 1 /\ total > -1

\* the "invoice text" of _keyword_match
InvoiceText(invoice) ==
  Join(<<Norm(Get(invoice, "vendor_name")), Norm(Get(invoice, "vendor_normalized")),
         Norm(Get(invoice, "invoice_number")), Norm(Get(invoice, "airport_code")),
         Norm(Get(invoice, "tail_number")), Norm(Get(invoice, "doc_type"))>>)

\* Fault: only the description of a line item is searched
LineItemDescription(li) == Norm(Get(li, "description"))

\* the text of one line item that keywords are searched in
LineItemHay(li) ==
  Norm(Or(Or(Get(li, "description"), Get(li, "name")), Get(li, "desc")))

\* _keyword_match: [kws: the set of matched keywords, items: the matched line items]
KeywordMatch(keywords, invoice, require_charged_line_items) ==
  LET normed == [i \in 1..Len(keywords) |-> Norm(keywords[i])]
      kws == {normed[i] : i \in {j \in 1..Len(normed) : normed[j] # <<>>}}
      line_items == Or(Get(invoice, "line_items"), List(<<>>)).l
      invoice_text == InvoiceText(invoice)
      in_loop == {kw \in kws : \E i \in 1..Len(line_items) :
                    Contains(kw, LineItemHay(line_items[i])) \/ Contains(kw, invoice_text)}
      li_hit(li) == \E kw \in kws : Contains(kw, LineItemHay(li))
      matched_items ==
        SelectSeq(line_items,
                  LAMBDA li : li_hit(li)
                              /\ ~(require_charged_line_items /\ ~LineItemIsCharged(li)))
      matched_kws ==
        IF in_loop = {} THEN {kw \in kws : Contains(kw, invoice_text)} ELSE in_loop
  IN IF kws = {} THEN [kws |-> {}, items |-> <<>>]
     ELSE [kws |-> matched_kws, items |-> matched_items]

RuleMatchResult(matched, reason, matched_line_items, matched_keywords) ==
  [matched |-> matched, reason |-> reason,
   matched_line_items |-> matched_line_items, matched_keywords |-> matched_keywords]

\* Fault: the allow-list is compared as written, not normalized
AllowedAsWritten(allowed) ==
  {allowed[i].s : i \in {j \in 1..Len(allowed) : allowed[j] # None}}

\* {_norm(x) for x in allowed if _norm(x)}
AllowedNorm(allowed) ==
  {Norm(allowed[i]) : i \in {j \in 1..Len(allowed) : Norm(allowed[j]) # <<>>}}

\* Fault: a minimum is enforced against a missing invoice field too
BelowMinOrMissing(inv_value, min_value) ==
  min_value # None /\ (inv_value = None \/ inv_value.n < min_value.n)

\* a < b for two optional numbers, false when either is None
BelowMin(inv_value, min_value) ==
  min_value # None /\ inv_value # None /\ inv_value.n < min_value.n

\* int(inv_risk_score) < int(min_risk_score); an int() that raises is passed
\* over. int() truncates a number and parses a text of digits; it raises on any
\* other text and on a list.
RiskBelowMin(inv_risk, min_risk) ==
  LET whole(s) == Strip(s) # <<>> /\ \A i \in 1..Len(Strip(s)) : IsDigit(Strip(s)[i])
      raises(v) == (v.k = "str" /\ ~whole(v.s)) \/ v.k = "list"
      int(v) == CASE v.k = "num" -> v.n \div 100
                  [] v.k = "bool" -> IF v.b THEN 1 ELSE 0
                  [] v.k = "str" -> DigitsValue(Strip(v.s))
  IN /\ min_risk # None /\ inv_risk # None
     /\ ~raises(inv_risk) /\ ~raises(min_risk)
     /\ int(inv_risk) < int(min_risk)

\* rule_matches
RuleMatches(rule, invoice) ==
  LET vendor_allowed == Listify(Get(rule, "vendor_normalized_in"))
      doc_type_allowed == Listify(Get(rule, "doc_type_in"))
      airport_allowed == Listify(Get(rule, "airport_code_in"))
      inv_vendor_norm == Norm(Or(Get(invoice, "vendor_normalized"), Get(invoice, "vendor_name")))
      inv_doc_type == Norm(Get(invoice, "doc_type"))
      inv_airport == Norm(Get(invoice, "airport_code"))
      keywords == SelectSeq(Listify(Get(rule, "keywords")), LAMBDA kw : kw # None)
      require_charged_line_items == Truthy(Get(rule, "require_charged_line_items"))
      km == KeywordMatch(keywords, invoice, require_charged_line_items)
  IN
  IF ~IsRuleEnabled(rule) THEN RuleMatchResult(FALSE, "rule disabled", <<>>, <<>>)
  ELSE IF vendor_allowed # <<>> /\ inv_vendor_norm \notin AllowedNorm(vendor_allowed)
    THEN RuleMatchResult(FALSE, "vendor not in vendor_normalized_in", <<>>, <<>>)
  ELSE IF doc_type_allowed # <<>> /\ inv_doc_type \notin AllowedNorm(doc_type_allowed)
    THEN RuleMatchResult(FALSE, "doc_type not in doc_type_in", <<>>, <<>>)
  ELSE IF airport_allowed # <<>> /\ inv_airport \notin AllowedNorm(airport_allowed)
    THEN RuleMatchResult(FALSE, "airport_code not in airport_code_in", <<>>, <<>>)
  ELSE IF Get(rule, "require_review_required") = Bool(TRUE)
          /\ ~Truthy(Get(invoice, "review_required"))
    THEN RuleMatchResult(FALSE, "invoice not review_required", <<>>, <<>>)
  ELSE IF BelowMin(ToFloat(Get(invoice, "total")), ToFloat(Get(rule, "min_total")))
    THEN RuleMatchResult(FALSE, "total below min_total", <<>>, <<>>)
  ELSE IF BelowMin(ToFloat(Get(invoice, "handling_fee")), ToFloat(Get(rule, "min_handling_fee")))
    THEN RuleMatchResult(FALSE, "handling_fee below min_handling_fee", <<>>, <<>>)
  ELSE IF BelowMin(ToFloat(Get(invoice, "service_fee")), ToFloat(Get(rule, "min_service_fee")))
    THEN RuleMatchResult(FALSE, "service_fee below min_service_fee", <<>>, <<>>)
  ELSE IF BelowMin(ToFloat(Get(invoice, "surcharge")), ToFloat(Get(rule, "min_surcharge")))
    THEN RuleMatchResult(FALSE, "surcharge below min_surcharge", <<>>, <<>>)
  ELSE IF RiskBelowMin(Get(invoice, "risk_score"), Get(rule, "min_risk_score"))
    THEN RuleMatchResult(FALSE, "risk_score below min_risk_score", <<>>, <<>>)
  ELSE IF keywords # <<>> /\ km.kws = {}
    THEN RuleMatchResult(FALSE, "no keyword match", <<>>, <<>>)
  ELSE IF require_charged_line_items /\ km.items = <<>>
    THEN RuleMatchResult(FALSE, "no charged line item matches", <<>>, Sorted(km.kws))
  ELSE RuleMatchResult(TRUE,
                       IF km.kws # {} THEN "keyword match: " \o CommaJoin(Sorted(km.kws))
                       ELSE "matched",
                       km.items, Sorted(km.kws))

\* ------------------------------------------------------------------ main.py: fee

amount_keys ==
  <<"total", "amount", "line_total", "extended", "ext_amount", "value", "subtotal", "charge">>

\* Fault: only the first amount key is read
FirstKeyOnly(li, keys) ==
  IF keys = <<>> THEN None ELSE ToFloat(Get(li, Head(keys)))

\* the first amount key whose value parses to a positive number, else None
RECURSIVE FirstPositive(_, _)
FirstPositive(li, keys) ==
  IF keys = <<>> THEN None
  ELSE LET val == ToFloat(Get(li, Head(keys)))
       IN IF val # None /\ val.n > 0 THEN val ELSE FirstPositive(li, Tail(keys))

\* fee_amount in (None, "")
Blank(v) == v = None \/ v = Str(<<>>)

handling == <<"h","a","n","d","l","i","n","g">>
service == <<"s","e","r","v","i","c","e">>
surcharge == <<"s","u","r","c","h","a","r","g","e">>
HandlingFee == <<"H","a","n","d","l","i","n","g"," ","F","e","e">>
ServiceFee == <<"S","e","r","v","i","c","e"," ","F","e","e">>
SurchargeName == <<"S","u","r","c","h","a","r","g","e">>
Fee == <<"F","e","e">>

\* bool(d) of an optional dict
DictTruthy(d) == d # None /\ DOMAIN d # {}

\* the invoice sub-fee fallback of _pick_fee_details, for one field
InvoiceFeeFallback(fee, invoice, field, label) ==
  IF ~Blank(Get(invoice, field))
  THEN [fee_name |-> IF Strip(Or(fee.fee_name, Str(<<>>)).s) = <<>> THEN Str(label)
                     ELSE fee.fee_name,
        fee_amount |-> Get(invoice, field)]
  ELSE fee

\* Fault: quantity times unit price is synthesized whatever charged_only says
PickFeeDetailsSynthesized(matched_line_items, fallback_fee_name, invoice, rule_name, charged_only) ==
  LET name0 == Or(fallback_fee_name, Or(rule_name, Str(Fee)))
      li == IF matched_line_items # <<>> THEN matched_line_items[1] ELSE <<>>
      name1 == IF matched_line_items # <<>>
               THEN Or(Or(Get(li, "description"), Get(li, "name")), name0)
               ELSE name0
      probed == IF matched_line_items # <<>> THEN FirstPositive(li, amount_keys) ELSE None
      qty == ToFloat(Or(Get(li, "quantity"), Get(li, "qty")))
      unit == ToFloat(Or(Or(Get(li, "unit_price"), Get(li, "rate")), Get(li, "price")))
      amount1 == IF matched_line_items # <<>> /\ Blank(probed)
                    /\ qty # None /\ unit # None
                 THEN Num(RoundMul(qty.n, unit.n))
                 ELSE probed
      fee1 == [fee_name |-> name1, fee_amount |-> amount1]
      rn == Lower(Or(rule_name, Str(<<>>)).s)
  IN IF Blank(amount1) /\ DictTruthy(invoice) /\ Truthy(rule_name)
     THEN IF Contains(handling, rn) THEN InvoiceFeeFallback(fee1, invoice, "handling_fee", HandlingFee)
          ELSE IF Contains(service, rn) THEN InvoiceFeeFallback(fee1, invoice, "service_fee", ServiceFee)
          ELSE IF Contains(surcharge, rn) THEN InvoiceFeeFallback(fee1, invoice, "surcharge", SurchargeName)
          ELSE fee1
     ELSE fee1

\* _pick_fee_details(matched_line_items, fallback_fee_name, invoice=, rule_name=, charged_only=)
\* invoice is a dict or None.
PickFeeDetails(matched_line_items, fallback_fee_name, invoice, rule_name, charged_only) ==
  LET name0 == Or(fallback_fee_name, Or(rule_name, Str(Fee)))
      li == IF matched_line_items # <<>> THEN matched_line_items[1] ELSE <<>>
      name1 == IF matched_line_items # <<>>
               THEN Or(Or(Get(li, "description"), Get(li, "name")), name0)
               ELSE name0
      probed == IF matched_line_items # <<>> THEN FirstPositive(li, amount_keys) ELSE None
      qty == ToFloat(Or(Get(li, "quantity"), Get(li, "qty")))
      unit == ToFloat(Or(Or(Get(li, "unit_price"), Get(li, "rate")), Get(li, "price")))
      amount1 == IF matched_line_items # <<>> /\ Blank(probed) /\ ~charged_only
                    /\ qty # None /\ unit # None
                 THEN Num(RoundMul(qty.n, unit.n))
                 ELSE probed
      fee1 == [fee_name |-> name1, fee_amount |-> amount1]
      rn == Lower(Or(rule_name, Str(<<>>)).s)
  IN IF Blank(amount1) /\ DictTruthy(invoice) /\ Truthy(rule_name)
     THEN IF Contains(handling, rn) THEN InvoiceFeeFallback(fee1, invoice, "handling_fee", HandlingFee)
          ELSE IF Contains(service, rn) THEN InvoiceFeeFallback(fee1, invoice, "service_fee", ServiceFee)
          ELSE IF Contains(surcharge, rn) THEN InvoiceFeeFallback(fee1, invoice, "surcharge", SurchargeName)
          ELSE fee1
     ELSE fee1

\* Fault: the amount is not looked at, a name alone makes a fee actionable
FeeHasName(fee) ==
  Strip(Or(fee.fee_name, Str(<<>>)).s) # <<>>

\* the "ACTIONABLE ONLY" test of run_alerts and flush_alerts on a resolved fee:
\* fee_name = (fee_name or "").strip() or None; fee_amount = _to_float(fee_amount);
\* not (not fee_name or fee_amount is None or fee_amount <= 0)
FeeIsActionable(fee) ==
  LET fee_name == Strip(Or(fee.fee_name, Str(<<>>)).s)
      fee_amount == ToFloat(fee.fee_amount)
  IN fee_name # <<>> /\ fee_amount # None /\ fee_amount.n > 0

\* ------------------------------------------------------------------ texts

pending == <<"p","e","n","d","i","n","g">>
sending == <<"s","e","n","d","i","n","g">>
sent == <<"s","e","n","t">>
error == <<"e","r","r","o","r">>
skipped == <<"s","k","i","p","p","e","d">>
ok == <<"o","k">>
success == <<"s","u","c","c","e","s","s">>
null == <<"n","u","l","l">>
non_actionable_missing_fee ==
  <<"n","o","n","_","a","c","t","i","o","n","a","b","l","e","_","m","i","s","s","i","n","g","_","f","e","e">>
missing_document_id ==
  <<"m","i","s","s","i","n","g","_","d","o","c","u","m","e","n","t","_","i","d">>

\* ------------------------------------------------------------------ supa.py

\* the row with the patch's columns overwritten (PATCH body)
Patch(row, patch) ==
  [key \in DOMAIN row \cup DOMAIN patch |->
     IF key \in DOMAIN patch THEN patch[key] ELSE row[key]]

\* _build_eq_params as the server applies it: every eq column equals its value
\* (None is "is.null")
MatchesEq(row, eq) == \A key \in DOMAIN eq : Get(row, key) = eq[key]

\* Fault: the PATCH reaches no row
SafeUpdateLost(table, row_id, patch) == table

\* safe_update(table, row_id, patch): PATCH ?id=eq.row_id
SafeUpdate(table, row_id, patch) ==
  [j \in 1..Len(table) |->
     IF Get(table[j], "id") = row_id THEN Patch(table[j], patch) ELSE table[j]]

\* Fault: the PATCH is filtered by id alone, whatever else eq names
SafeUpdateWhereById(table, patch, eq) ==
  [rows |-> [j \in 1..Len(table) |->
               IF Get(table[j], "id") = eq.id THEN Patch(table[j], patch) ELSE table[j]],
   n |-> Cardinality({j \in 1..Len(table) : Get(table[j], "id") = eq.id})]

\* safe_update_where(table, patch, eq=): one conditional PATCH; the rows after it
\* and the number of rows it returned
SafeUpdateWhere(table, patch, eq) ==
  [rows |-> [j \in 1..Len(table) |->
               IF MatchesEq(table[j], eq) THEN Patch(table[j], patch) ELSE table[j]],
   n |-> Cardinality({j \in 1..Len(table) : MatchesEq(table[j], eq)})]

\* safe_select_one(table, eq=): the first row that matches, else None
SafeSelectOne(table, eq) ==
  IF \E j \in 1..Len(table) : MatchesEq(table[j], eq)
  THEN table[CHOOSE j \in 1..Len(table) :
               MatchesEq(table[j], eq) /\ \A h \in 1..(j - 1) : ~MatchesEq(table[h], eq)]
  ELSE None

\* ------------------------------------------------------------------ supa.py: the retry layer

\* the substrings of repr(e).lower() that make an exception transient
TransientMarkers ==
  {<<"r","e","a","d","e","r","r","o","r">>,
   <<"r","e","s","o","u","r","c","e"," ","t","e","m","p","o","r","a","r","i","l","y"," ","u","n","a","v","a","i","l","a","b","l","e">>,
   <<"t","i","m","e","o","u","t">>,
   <<"t","i","m","e","d"," ","o","u","t">>,
   <<"c","o","n","n","e","c","t","i","o","n"," ","r","e","s","e","t">>,
   <<"c","o","n","n","e","c","t","i","o","n"," ","a","b","o","r","t","e","d">>,
   <<"s","e","r","v","e","r"," ","d","i","s","c","o","n","n","e","c","t","e","d">>,
   <<"b","r","o","k","e","n"," ","p","i","p","e">>,
   <<"t","e","m","p","o","r","a","r","y"," ","f","a","i","l","u","r","e">>,
   <<"5","0","2">>,
   <<"5","0","3">>,
   <<"5","0","4">>}

\* Fault: every exception counts as transient
IsAnyError(e) == e = e

\* _is_transient_error(e), e being the text of repr(e)
IsTransientError(e) == \E s \in TransientMarkers : Contains(s, Lower(e))

\* the default of `tries`
DefaultTries == 4

ReadTimeout == <<"R","e","a","d","T","i","m","e","o","u","t">>
ConnectionReset == <<"C","o","n","n","e","c","t","i","o","n"," ","r","e","s","e","t">>
SSLError == <<"S","S","L","E","r","r","o","r">>

\* what one requests.request call does: it returns a response, or raises e
Response == [k |-> "response"]
Raises(e) == [k |-> "raise", e |-> e]

\* the RuntimeError _request_with_retry raises when its loop ran no attempt
NoAttempt == <<"r","e","q","u","e","s","t"," ","f","a","i","l","e","d">>

\* _request_with_retry(..., tries=) from attempt `attempt` on (0-based, as in the
\* source), outcomes[i] being what the i-th requests.request call does: the
\* number of requests made, and the response returned or the exception raised
RECURSIVE RequestWithRetry(_, _, _)
RequestWithRetry(attempt, tries, outcomes) ==
  IF attempt >= tries
  THEN [attempts |-> attempt, outcome |-> Raises(NoAttempt)]
  ELSE IF outcomes[attempt + 1].k = "response"
  THEN [attempts |-> attempt + 1, outcome |-> Response]
  ELSE IF attempt < tries - 1 /\ IsTransientError(outcomes[attempt + 1].e)
  THEN RequestWithRetry(attempt + 1, tries, outcomes)
  ELSE [attempts |-> attempt + 1, outcome |-> outcomes[attempt + 1]]

\* ------------------------------------------------------------------ the tables

\* Bounds of the model: how many times each job is invoked and how many times
\* the parser pipeline rewrites the invoice.
MaxFlushRuns == 2
MaxAlertRuns == 2
MaxReparse == 1
MaxActive == 2

\* One runner per invocation; invocations may overlap.
FlushRunners == 1..MaxFlushRuns
AlertRunners == 1..MaxAlertRuns

d1 == Str(<<"d","1">>)
p1 == Str(<<"p","1">>)
r1 == Str(<<"r","1">>)
r2 == Str(<<"r","2">>)
r3 == Str(<<"r","3">>)

\* invoice_alert_rules, as _fetch_rules returns it.
\*   r1: keyword "handling", charged line items required
\*   r2: keyword "ACME" (hits the vendor name only), enabled through `enabled`
\*   r3: is_enabled false
Rules ==
  << [id |-> r1, name |-> Str(HandlingFee), is_enabled |-> Bool(TRUE),
      keywords |-> List(<<Str(handling)>>), require_charged_line_items |-> Bool(TRUE)],
     [id |-> r2, name |-> Str(<<"H","a","n","d","l","i","n","g"," ","w","a","t","c","h">>),
      enabled |-> Bool(TRUE), keywords |-> List(<<Str(<<"A","C","M","E">>)>>)],
     [id |-> r3, name |-> Str(ServiceFee), is_enabled |-> Bool(FALSE), enabled |-> Bool(TRUE),
      keywords |-> List(<<Str(handling)>>)] >>

\* One line item "Handling Fee", quantity 1, unit price 150, with the given total.
HandlingItem(total) ==
  [description |-> Str(HandlingFee), quantity |-> Num(100), unit_price |-> Num(15000),
   total |-> total]

\* The parsed invoice of document d1 as the parser pipeline may write it.
InvoiceVersion(total, handling_fee) ==
  [id |-> p1, vendor_name |-> Str(<<"A","c","m","e"," ","J","e","t">>),
   handling_fee |-> handling_fee, line_items |-> List(<<HandlingItem(total)>>)]

\* charged (total 150, handling_fee 50)
InvoiceCharged == InvoiceVersion(Num(15000), Num(5000))
\* re-priced (total 200, handling_fee "$50")
InvoiceRepriced == InvoiceVersion(Num(20000), Str(<<"$","5","0">>))
\* waived (total 0, no handling_fee)
InvoiceWaived == InvoiceVersion(Num(0), None)

InvoiceVersions == {InvoiceCharged, InvoiceRepriced, InvoiceWaived}

\* A row of invoice_alerts left by an earlier revision of the service, for the
\* pair (r1, p1).
LegacyRow(status, slack_status, match_payload) ==
  [id |-> Num(1), created_at |-> Num(1), document_id |-> d1, rule_id |-> r1,
   parsed_invoice_id |-> p1, status |-> status, slack_status |-> slack_status,
   slack_error |-> None, match_reason |-> None, match_payload |-> match_payload]

\* invoice_alerts when the service starts: empty, or one legacy row with a blank
\* status, slack_status 'pending' and no cached evidence.
InitialTables ==
  { <<>>, <<LegacyRow(None, Str(pending), None)>> }

\* ------------------------------------------------------------------ state

VARIABLES
  parsed_invoices,    \* parsed_invoices: document_id -> the invoice row
  alerts,             \* invoice_alerts, in insertion order
  SLACK_WEBHOOK_URL,  \* whether the webhook is configured
  fl,                 \* per flush_alerts invocation: its locals and where it is
  ra,                 \* per run_alerts invocation: its locals and where it is
  ledger,             \* per alert row, what has been done for it: the HTTP posts
                      \* made to the Slack webhook, the claim updates that
                      \* returned 1, those that did not and those that
                      \* raised, and whether the upgrade path has written it
  reparsed,           \* how often the invoice was rewritten
  api,                \* the api_alerts request: its locals and where it is
  call                \* one call of rule_matches or _pick_fee_details: its
                      \* arguments, where it is and what it returned

vars == <<parsed_invoices, alerts, SLACK_WEBHOOK_URL, fl, ra, ledger, reparsed, api, call>>

LedgerNew == [posts |-> 0, claims |-> 0, refusals |-> 0, raised |-> 0, upgraded |-> FALSE]

EmptyDict == [key \in {} |-> None]

\* _safe_json_loads of a column value: a dict or a list as it is, None as None
\* (the modelled columns hold no JSON text)
SafeJsonLoads(v) ==
  IF "k" \notin DOMAIN v THEN v
  ELSE CASE v.k = "none" -> None
         [] v.k = "list" -> v

\* d or {}
DictOr(d) == IF DictTruthy(d) THEN d ELSE EmptyDict

Reason(text) == [k |-> "reason", text |-> text]

\* json.dumps(...) of a Slack result is a text of some length whose content is
\* fixed by the result; text[:n] keeps the first n characters.
Text(of, len) == [k |-> "text", of |-> of, len |-> len]
Take(text, n) == [text EXCEPT !.len = IF text.len < n THEN text.len ELSE n]

SlackErrorLimit == 1000

\* len(json.dumps({"ok": False, "skipped": True, "reason": "SLACK_WEBHOOK_URL not set"}))
SlackNotSetLen == 69

\* Fault: the unset webhook is reported as a success
SlackNotSetOk == [ok |-> TRUE, kind |-> "SLACK_WEBHOOK_URL not set", len |-> SlackNotSetLen]

\* What _slack_post returns with the webhook unset
SlackNotSet == [ok |-> FALSE, kind |-> "SLACK_WEBHOOK_URL not set", len |-> SlackNotSetLen]

\* What _slack_post returns after requests.post: a 2xx, or a failure (a non-2xx
\* with its response_text, an exception with its repr) whose JSON is longer than
\* slack_error keeps.
SlackResponses ==
  { [ok |-> TRUE, kind |-> "2xx", len |-> 33],
    [ok |-> FALSE, kind |-> "failed", len |-> 1500] }

\* The locals of a flush_alerts invocation; after its return only the counts of
\* its response are left.
FlushNew ==
  [pc |-> "new", limit |-> 0, rows |-> <<>>, i |-> 0,
   sent |-> 0, errored |-> 0, skipped |-> 0,
   fee |-> None, new_mp |-> None, slack_res |-> None, ret |-> "none"]

\* The locals of a run_alerts invocation; after its return the counts of its
\* response and the invoice it had read are left.
AlertsNew ==
  [pc |-> "new", invoice |-> None, document_id |-> None, k |-> 0, res |-> None,
   matched_alerts |-> 0, evaluated |-> 0, existing |-> None, ret |-> "none"]

\* api_alerts before it is called
ApiNew ==
  [pc |-> "new", limit |-> 0, qn |-> <<>>, status |-> None, slack_status |-> None,
   rows |-> <<>>, candidates |-> <<>>, invoices_by_doc |-> EmptyDict, out |-> <<>>,
   ret |-> "none"]

\* no call of a pure function is under way
NoCall == [pc |-> "none"]

Init ==
  /\ parsed_invoices = [d \in {d1} |-> InvoiceCharged]
  /\ alerts \in InitialTables
  /\ SLACK_WEBHOOK_URL \in BOOLEAN
  /\ fl = [f \in FlushRunners |-> FlushNew]
  /\ ra = [g \in AlertRunners |-> AlertsNew]
  /\ ledger = [j \in 1..Len(alerts) |-> LedgerNew]
  /\ reparsed = 0
  /\ api = ApiNew
  /\ call = NoCall

\* The parser pipeline rewrites the invoice of d1 in place (upsert on conflict).
Reparse(invoice) ==
  /\ reparsed < MaxReparse
  /\ invoice # parsed_invoices[d1]
  /\ parsed_invoices' = [parsed_invoices EXCEPT ![d1] = invoice]
  /\ reparsed' = reparsed + 1
  /\ UNCHANGED <<call, api, alerts, SLACK_WEBHOOK_URL, fl, ra, ledger>>

\* The requests in flight: invocations that have started and not returned
Active ==
  Cardinality({g \in AlertRunners : ra[g].pc \notin {"new", "done"}})
  + Cardinality({f \in FlushRunners : fl[f].pc \notin {"new", "done"}})

\* The row index of an alert id, for the ledger
RowIndex(alert_id) == CHOOSE j \in 1..Len(alerts) : Get(alerts[j], "id") = alert_id

\* ------------------------------------------------------------------ run_alerts

\* unique(rule_id, parsed_invoice_id) on invoice_alerts: the insert is refused
\* (23505) when a row of the pair exists
DuplicateKey(table, row) ==
  \E j \in 1..Len(table) :
    /\ Get(table[j], "rule_id") = Get(row, "rule_id")
    /\ Get(table[j], "parsed_invoice_id") = Get(row, "parsed_invoice_id")

\* the fee probe of run_alerts for a match result (charged_only=True)
FeeProbe(rule, invoice, result) ==
  PickFeeDetails(result.matched_line_items, Get(rule, "name"), invoice, Get(rule, "name"), TRUE)

\* the alert_row run_alerts builds; the table sets id, and created_at is the time
\* of the insert
AlertRow(document_id, rule, invoice, result, id, created_at) ==
  [id |-> id, created_at |-> created_at, document_id |-> document_id,
   rule_id |-> Get(rule, "id"), parsed_invoice_id |-> Get(invoice, "id"),
   status |-> Str(pending), match_reason |-> Reason(result.reason),
   match_payload |-> [matched_keywords |-> List(result.matched_keywords),
                      matched_line_items |-> List(result.matched_line_items),
                      rule_name |-> Get(rule, "name")],
   slack_status |-> Str(pending), slack_error |-> None]

\* the patch safe_update gets on the upgrade path, is_actionable being the fee
\* probe's verdict
UpgradeWrite(rule, result, existing, is_actionable) ==
  [match_payload |-> Patch(DictOr(SafeJsonLoads(Get(existing, "match_payload"))),
                           [rule_name |-> Get(rule, "name"),
                            matched_keywords |-> List(result.matched_keywords),
                            matched_line_items |-> List(result.matched_line_items)]),
   match_reason |-> Reason(result.reason),
   slack_status |-> IF is_actionable THEN Str(pending) ELSE Get(existing, "slack_status"),
   slack_error |-> IF is_actionable THEN None ELSE Get(existing, "slack_error")]

\* the patch of the upgrade path for the row read as `existing`
UpgradePatch(rule, invoice, result, existing) ==
  UpgradeWrite(rule, result, existing, FeeIsActionable(FeeProbe(rule, invoice, result)))

\* `for rule in rules` from rule k on, up to the first rule that reaches
\* safe_insert: disabled rules are passed over, rules that do not match or whose
\* fee is not actionable are evaluated and passed over.
RECURSIVE RunSkip(_, _, _)

\* Fault: a matching rule reaches safe_insert whatever its fee
RunRuleUngated(k, evaluated, invoice, res) ==
  IF ~res.matched
  THEN RunSkip(k + 1, evaluated + 1, invoice)
  ELSE [k |-> k, evaluated |-> evaluated + 1, res |-> res]

\* rule k with its match result res
RunRule(k, evaluated, invoice, res) ==
  IF ~res.matched \/ ~FeeIsActionable(FeeProbe(Rules[k], invoice, res))
  THEN RunSkip(k + 1, evaluated + 1, invoice)
  ELSE [k |-> k, evaluated |-> evaluated + 1, res |-> res]

RunSkip(k, evaluated, invoice) ==
  IF k > Len(Rules) THEN [k |-> k, evaluated |-> evaluated, res |-> None]
  ELSE IF ~IsRuleEnabled(Rules[k]) THEN RunSkip(k + 1, evaluated, invoice)
  ELSE RunRule(k, evaluated, invoice, RuleMatches(Rules[k], invoice))

\* the locals at the next storage call, s being where the loop stops: the
\* safe_insert of rule s.k, or the return past the last rule
RunResume(me, s) ==
  IF s.k > Len(Rules)
  THEN [AlertsNew EXCEPT !.pc = "done", !.ret = "ok", !.invoice = me.invoice,
                         !.matched_alerts = me.matched_alerts, !.evaluated = s.evaluated]
  ELSE [me EXCEPT !.pc = "insert", !.k = s.k, !.evaluated = s.evaluated, !.res = s.res,
                  !.existing = None]

\* run_alerts from rule me.k on, up to its next storage call
RunContinue(me) == RunResume(me, RunSkip(me.k, me.evaluated, me.invoice))

\* run_alerts(document_id): _fetch_invoice and _fetch_rules; a missing invoice is
\* the 404 that ends the request.
RunStart(g, document_id) ==
  /\ ra[g].pc = "new"
  /\ IF g = 1 THEN TRUE ELSE ra[g - 1].pc # "new"
  /\ Active < MaxActive
  /\ ra' = [ra EXCEPT ![g] =
       IF document_id \in DOMAIN parsed_invoices
       THEN RunContinue([AlertsNew EXCEPT !.invoice = parsed_invoices[document_id],
                                          !.document_id = document_id, !.k = 1])
       ELSE [AlertsNew EXCEPT !.pc = "done", !.ret = "http404"]]
  /\ UNCHANGED <<call, api, parsed_invoices, alerts, SLACK_WEBHOOK_URL, fl, ledger, reparsed>>

\* Fault: a refused insert is counted in matched_alerts all the same
RunInsertRowCounted(g, me, row) ==
  IF DuplicateKey(alerts, row)
  THEN /\ ra' = [ra EXCEPT ![g].pc = "duplicate", ![g].matched_alerts = @ + 1]
       /\ UNCHANGED <<alerts, ledger>>
  ELSE /\ alerts' = Append(alerts, row)
       /\ ledger' = Append(ledger, LedgerNew)
       /\ ra' = [ra EXCEPT ![g] =
                   RunContinue([me EXCEPT !.k = @ + 1, !.matched_alerts = @ + 1])]

\* safe_insert(row) by invocation g: inserted, or refused as a duplicate
RunInsertRow(g, me, row) ==
  IF DuplicateKey(alerts, row)
  THEN /\ ra' = [ra EXCEPT ![g].pc = "duplicate"]
       /\ UNCHANGED <<alerts, ledger>>
  ELSE /\ alerts' = Append(alerts, row)
       /\ ledger' = Append(ledger, LedgerNew)
       /\ ra' = [ra EXCEPT ![g] =
                   RunContinue([me EXCEPT !.k = @ + 1, !.matched_alerts = @ + 1])]

\* safe_insert of the alert row of rule me.k
RunInsert(g) ==
  /\ ra[g].pc = "insert"
  /\ RunInsertRow(g, ra[g],
                  AlertRow(ra[g].document_id, Rules[ra[g].k], ra[g].invoice, ra[g].res,
                           Num(Len(alerts) + 1), Num(Len(alerts) + 1)))
  /\ UNCHANGED <<call, api, parsed_invoices, SLACK_WEBHOOK_URL, fl, reparsed>>

\* the locals after safe_select_one returned `existing`
RunSelected(me, existing) ==
  IF Truthy(Get(existing, "id"))
  THEN [me EXCEPT !.pc = "upgrade", !.existing = existing]
  ELSE RunContinue([me EXCEPT !.k = @ + 1])

\* DUPLICATE -> UPGRADE IN PLACE, first half: safe_select_one of the pair's row
RunSelect(g) ==
  /\ ra[g].pc = "duplicate"
  /\ ra' = [ra EXCEPT ![g] =
       RunSelected(ra[g], SafeSelectOne(alerts,
                     [rule_id |-> Get(Rules[ra[g].k], "id"),
                      parsed_invoice_id |-> Get(ra[g].invoice, "id")]))]
  /\ UNCHANGED <<call, api, parsed_invoices, alerts, SLACK_WEBHOOK_URL, fl, ledger, reparsed>>

\* DUPLICATE -> UPGRADE IN PLACE, second half: safe_update of the row read
RunUpgrade(g) ==
  /\ ra[g].pc = "upgrade"
  /\ alerts' = SafeUpdate(alerts, Get(ra[g].existing, "id"),
                          UpgradePatch(Rules[ra[g].k], ra[g].invoice, ra[g].res,
                                       ra[g].existing))
  /\ ledger' = [ledger EXCEPT ![RowIndex(Get(ra[g].existing, "id"))].upgraded = TRUE]
  /\ ra' = [ra EXCEPT ![g] = RunContinue([ra[g] EXCEPT !.k = @ + 1])]
  /\ UNCHANGED <<call, api, parsed_invoices, SLACK_WEBHOOK_URL, fl, reparsed>>

\* ------------------------------------------------------------------ flush_alerts

\* Fault: the limit is used as the request gave it
LimitAsGiven(limit) == limit

\* max(1, min(int(limit), 100))
ClampLimit(limit) ==
  LET low == IF limit < 100 THEN limit ELSE 100
  IN IF low > 1 THEN low ELSE 1

\* the sort key str(r.get("created_at") or ""): a missing created_at sorts first
CreatedAtKey(row) ==
  IF Truthy(Get(row, "created_at")) THEN Get(row, "created_at").n ELSE -1

\* sorted(rows, key=created_at): stable, oldest first
RECURSIVE SortedByCreatedAt(_)

\* Fault: the rows stay in the order the table returned them
SortedAppend(front, last) == front \o <<last>>

\* `last` put into the sorted `front`, after the rows that are not newer
SortedInsert(front, last) ==
  SelectSeq(front, LAMBDA r : CreatedAtKey(r) <= CreatedAtKey(last))
  \o <<last>>
  \o SelectSeq(front, LAMBDA r : CreatedAtKey(r) > CreatedAtKey(last))

SortedByCreatedAt(rows) ==
  IF rows = <<>> THEN <<>>
  ELSE SortedInsert(SortedByCreatedAt(SubSeq(rows, 1, Len(rows) - 1)), rows[Len(rows)])

\* the columns flush_alerts selects
FlushColumns(row) ==
  [key \in DOMAIN row \ {"match_reason"} |-> row[key]]

\* (a.get("slack_status") or "").strip().lower()
SlackStatusOf(a) == Lower(Strip(Or(Get(a, "slack_status"), Str(<<>>)).s))

\* str(a.get("status") or "").lower()
StatusOf(a) == Lower(Or(Get(a, "status"), Str(<<>>)).s)

\* a.get("status") or "pending": what the terminal writes put in status
StatusKept(a) == Or(Get(a, "status"), Str(pending))

\* Fault: only the delivered rows are passed over
FastSkipDelivered(slack_status) ==
  slack_status \in {sent, ok, success}

\* the fast skip on slack_status: anything but blank, 'pending' or 'null' is
\* passed over
FastSkip(slack_status) ==
  \/ slack_status \in {sent, ok, success}
  \/ slack_status \notin {<<>>, pending, null}

\* `for a in rows` from row i on, up to the first row that is not passed over
\* (a row without id is passed over as well)
RECURSIVE FlushSkip(_, _)
FlushSkip(rows, i) ==
  IF i > Len(rows) THEN i
  ELSE IF ~Truthy(Get(rows[i], "id")) \/ FastSkip(SlackStatusOf(rows[i]))
  THEN FlushSkip(rows, i + 1)
  ELSE i

\* the locals at the next storage call, j being the row where the loop stops: the
\* first update of row j, or the return (past the last row, or at the limit)
FlushResume(me, j) ==
  IF me.sent + me.errored >= me.limit \/ j > Len(me.rows)
  THEN [FlushNew EXCEPT !.pc = "done", !.ret = "ok", !.sent = me.sent,
                        !.errored = me.errored, !.skipped = me.skipped]
  ELSE [me EXCEPT !.pc = "row", !.i = j, !.fee = None, !.new_mp = None, !.slack_res = None]

\* flush_alerts from row me.i on, up to its next storage call
FlushContinue(me) == FlushResume(me, FlushSkip(me.rows, me.i))

\* the rule of rules_by_id for the row's rule_id, None when unknown
RuleById(rule_id) ==
  IF Truthy(rule_id) /\ \E j \in 1..Len(Rules) : Get(Rules[j], "id") = rule_id
  THEN Rules[CHOOSE j \in 1..Len(Rules) :
               Get(Rules[j], "id") = rule_id
               /\ \A h \in (j + 1)..Len(Rules) : Get(Rules[h], "id") # rule_id]
  ELSE None

\* Fault: the recomputed evidence is used and never written back
HealedUnwritten(mp, rule_name, res) ==
  IF res.matched
  THEN [matched_line_items |-> res.matched_line_items, new_mp |-> None]
  ELSE [matched_line_items |-> <<>>, new_mp |-> None]

\* Legacy self-heal with the result res of rule_matches: the evidence to use and
\* the match_payload to write back (None when nothing is written back)
Healed(mp, rule_name, res) ==
  IF res.matched
  THEN [matched_line_items |-> res.matched_line_items,
        new_mp |-> Patch(mp, [rule_name |-> rule_name,
                              matched_keywords |-> List(res.matched_keywords),
                              matched_line_items |-> List(res.matched_line_items)])]
  ELSE [matched_line_items |-> <<>>, new_mp |-> None]

\* The evidence for a claimed row: the cached matched_line_items when there are
\* any, else what the legacy self-heal recomputes
Evidence(mp, rule, rule_name, invoice, cached) ==
  IF cached.k = "list" /\ Len(cached.l) > 0
  THEN [matched_line_items |-> cached.l, new_mp |-> None]
  ELSE IF rule # None
  THEN Healed(mp, rule_name, RuleMatches(rule, invoice))
  ELSE [matched_line_items |-> <<>>, new_mp |-> None]

\* the fee _pick_fee_details resolves from the evidence
Resolved(evidence, rule, rule_name, invoice) ==
  [new_mp |-> evidence.new_mp,
   fee |-> PickFeeDetails(evidence.matched_line_items, rule_name, invoice, rule_name,
                          Truthy(Get(rule, "require_charged_line_items")))]

\* with mp, rule and rule_name as flush_alerts binds them
ResolveNamed(mp, rule, rule_name, invoice) ==
  Resolved(Evidence(mp, rule, rule_name, invoice, Get(mp, "matched_line_items")),
           rule, rule_name, invoice)

ResolveIn(mp, rule, invoice) ==
  ResolveNamed(mp, rule, Or(Or(Get(mp, "rule_name"), Get(rule, "name")), Str(Fee)), invoice)

\* What flush_alerts works out for a claimed row `a` from the invoice it fetched:
\* the match_payload to write back and the resolved fee
Resolve(a, invoice) ==
  ResolveIn(DictOr(SafeJsonLoads(Get(a, "match_payload"))), RuleById(Get(a, "rule_id")),
            invoice)

\* Fault: the terminal write records the Slack result whatever it was
TerminalPatchWithResult(a, slack_res) ==
  [slack_status |-> IF slack_res.ok THEN Str(sent) ELSE Str(error),
   slack_error |-> Take(Text(slack_res.kind, slack_res.len), SlackErrorLimit),
   status |-> StatusKept(a)]

\* Fault: the terminal write moves status along with slack_status
TerminalPatchWithStatus(a, slack_res) ==
  IF slack_res.ok
  THEN [slack_status |-> Str(sent), slack_error |-> None, status |-> Str(sent)]
  ELSE [slack_status |-> Str(error),
        slack_error |-> Take(Text(slack_res.kind, slack_res.len), SlackErrorLimit),
        status |-> Str(error)]

\* the terminal write after _slack_post: 'sent' on ok, else 'error' with the
\* result's JSON cut to 1000 characters; status keeps what the run read
TerminalPatch(a, slack_res) ==
  IF slack_res.ok
  THEN [slack_status |-> Str(sent), slack_error |-> None, status |-> StatusKept(a)]
  ELSE [slack_status |-> Str(error),
        slack_error |-> Take(Text(slack_res.kind, slack_res.len), SlackErrorLimit),
        status |-> StatusKept(a)]

\* sent += 1 or errored += 1, and on to the next row
Counted(me, slack_res) ==
  FlushContinue([me EXCEPT !.i = @ + 1,
                           !.sent = IF slack_res.ok THEN @ + 1 ELSE @,
                           !.errored = IF slack_res.ok THEN @ ELSE @ + 1])

\* flush_alerts(limit): the limit is clamped, the rules and the alert rows are read
FlushStart(f, limit) ==
  /\ fl[f].pc = "new"
  /\ IF f = 1 THEN TRUE ELSE fl[f - 1].pc # "new"
  /\ Active < MaxActive
  /\ fl' = [fl EXCEPT ![f] =
       FlushContinue([FlushNew EXCEPT
          !.limit = ClampLimit(limit), !.i = 1,
          !.rows = SortedByCreatedAt([j \in 1..Len(alerts) |-> FlushColumns(alerts[j])])])]
  /\ UNCHANGED <<call, api, parsed_invoices, alerts, SLACK_WEBHOOK_URL, ra, ledger, reparsed>>

\* Fault: a claim that did not return 1 is counted as skipped
FlushClaimSkipped(f, me, a, claim) ==
  IF claim.n # 1
  THEN /\ fl' = [fl EXCEPT ![f] = FlushContinue([me EXCEPT !.i = @ + 1, !.skipped = @ + 1])]
       /\ ledger' = [ledger EXCEPT ![RowIndex(Get(a, "id"))].refusals = @ + 1]
       /\ UNCHANGED alerts
  ELSE /\ alerts' = claim.rows
       /\ ledger' = [ledger EXCEPT ![RowIndex(Get(a, "id"))].claims = @ + 1]
       /\ fl' = [fl EXCEPT ![f].pc = "claimed"]

\* Fault: the run goes on with the row whatever the claim returned
FlushClaimUnchecked(f, me, a, claim) ==
  /\ alerts' = claim.rows
  /\ ledger' = [ledger EXCEPT ![RowIndex(Get(a, "id"))] =
                  IF claim.n = 1 THEN [@ EXCEPT !.claims = @ + 1]
                  ELSE [@ EXCEPT !.refusals = @ + 1]]
  /\ fl' = [fl EXCEPT ![f].pc = "claimed"]

\* CLAIM by invocation f of row a, claim being what safe_update_where did
FlushClaim(f, me, a, claim) ==
  IF claim.n # 1
  THEN /\ fl' = [fl EXCEPT ![f] = FlushContinue([me EXCEPT !.i = @ + 1])]
       /\ ledger' = [ledger EXCEPT ![RowIndex(Get(a, "id"))].refusals = @ + 1]
       /\ UNCHANGED alerts
  ELSE /\ alerts' = claim.rows
       /\ ledger' = [ledger EXCEPT ![RowIndex(Get(a, "id"))].claims = @ + 1]
       /\ fl' = [fl EXCEPT ![f].pc = "claimed"]

\* Fault: no auto-heal, every row that is not passed over goes to the claim
FlushRowOfClaim(f, me, a) ==
  FlushClaim(f, me, a,
             SafeUpdateWhere(alerts, [slack_status |-> Str(sending), slack_error |-> None],
                             [id |-> Get(a, "id"), slack_status |-> Str(pending)]))

\* The first storage call for row a, which is not passed over: the auto-heal of a
\* status='sent' row, or the conditional claim update (pending -> sending)
FlushRowOf(f, me, a) ==
  IF StatusOf(a) = sent
  THEN /\ alerts' = SafeUpdate(alerts, Get(a, "id"),
                               [slack_status |-> Str(sent), slack_error |-> None])
       /\ fl' = [fl EXCEPT ![f] = FlushContinue([me EXCEPT !.i = @ + 1])]
       /\ UNCHANGED ledger
  ELSE FlushClaim(f, me, a,
                  SafeUpdateWhere(alerts, [slack_status |-> Str(sending), slack_error |-> None],
                                  [id |-> Get(a, "id"), slack_status |-> Str(pending)]))

FlushRow(f) ==
  /\ fl[f].pc = "row"
  /\ FlushRowOf(f, fl[f], fl[f].rows[fl[f].i])
  /\ UNCHANGED <<call, api, parsed_invoices, SLACK_WEBHOOK_URL, ra, reparsed>>

\* the locals once the evidence and the fee are worked out
FlushResolved(me, resolved) ==
  [me EXCEPT !.pc = IF resolved.new_mp # None THEN "heal" ELSE "send",
             !.fee = resolved.fee, !.new_mp = resolved.new_mp]

\* After a won claim of row a: a row without document_id is written 'skipped';
\* otherwise the invoice is fetched (a missing invoice is the 404 that ends the
\* request) and the evidence and the fee are worked out.
FlushFetchOf(f, me, a, document_id) ==
  IF ~Truthy(document_id)
  THEN /\ alerts' = SafeUpdate(alerts, Get(a, "id"),
                               [slack_status |-> Str(skipped),
                                slack_error |-> Str(missing_document_id)])
       /\ fl' = [fl EXCEPT ![f] =
                   FlushContinue([me EXCEPT !.i = @ + 1, !.skipped = @ + 1])]
  ELSE IF document_id \notin DOMAIN parsed_invoices
  THEN /\ fl' = [fl EXCEPT ![f] = [FlushNew EXCEPT !.pc = "done", !.ret = "http404"]]
       /\ UNCHANGED alerts
  ELSE /\ fl' = [fl EXCEPT ![f] = FlushResolved(me, Resolve(a, parsed_invoices[document_id]))]
       /\ UNCHANGED alerts

FlushFetch(f) ==
  /\ fl[f].pc = "claimed"
  /\ FlushFetchOf(f, fl[f], fl[f].rows[fl[f].i], Get(fl[f].rows[fl[f].i], "document_id"))
  /\ UNCHANGED <<call, api, parsed_invoices, SLACK_WEBHOOK_URL, ra, ledger, reparsed>>

\* Legacy self-heal: the recomputed evidence is written back into match_payload
FlushHeal(f) ==
  /\ fl[f].pc = "heal"
  /\ alerts' = SafeUpdate(alerts, Get(fl[f].rows[fl[f].i], "id"),
                          [match_payload |-> fl[f].new_mp])
  /\ fl' = [fl EXCEPT ![f].pc = "send", ![f].new_mp = None]
  /\ UNCHANGED <<call, api, parsed_invoices, SLACK_WEBHOOK_URL, ra, ledger, reparsed>>

\* ACTIONABLE ONLY for row a: a fee that is not actionable is written 'skipped'.
\* Otherwise _slack_post is called: with the webhook unset it returns at once and
\* the row is written 'error'; with it set requests.post is made and answers
\* `response`.
FlushSendOf(f, me, a, response) ==
  IF ~FeeIsActionable(me.fee)
  THEN /\ alerts' = SafeUpdate(alerts, Get(a, "id"),
                               [slack_status |-> Str(skipped),
                                slack_error |-> Str(non_actionable_missing_fee),
                                status |-> StatusKept(a)])
       /\ fl' = [fl EXCEPT ![f] =
                   FlushContinue([me EXCEPT !.i = @ + 1, !.skipped = @ + 1])]
       /\ UNCHANGED ledger
  ELSE IF ~SLACK_WEBHOOK_URL
  THEN /\ alerts' = SafeUpdate(alerts, Get(a, "id"), TerminalPatch(a, SlackNotSet))
       /\ fl' = [fl EXCEPT ![f] = Counted(me, SlackNotSet)]
       /\ UNCHANGED ledger
  ELSE /\ fl' = [fl EXCEPT ![f].pc = "posted", ![f].slack_res = response]
       /\ ledger' = [ledger EXCEPT ![RowIndex(Get(a, "id"))].posts = @ + 1]
       /\ UNCHANGED alerts

FlushSend(f, response) ==
  /\ fl[f].pc = "send"
  /\ FlushSendOf(f, fl[f], fl[f].rows[fl[f].i], response)
  /\ UNCHANGED <<call, api, parsed_invoices, SLACK_WEBHOOK_URL, ra, reparsed>>

\* The terminal write after requests.post answered
FlushFinalize(f) ==
  /\ fl[f].pc = "posted"
  /\ alerts' = SafeUpdate(alerts, Get(fl[f].rows[fl[f].i], "id"),
                          TerminalPatch(fl[f].rows[fl[f].i], fl[f].slack_res))
  /\ fl' = [fl EXCEPT ![f] = Counted(fl[f], fl[f].slack_res)]
  /\ UNCHANGED <<call, api, parsed_invoices, SLACK_WEBHOOK_URL, ra, ledger, reparsed>>

\* ------------------------------------------------------------------ the system

DocumentIds == {d1}
Limits == {1, 25}

Next ==
  \/ \E invoice \in InvoiceVersions : Reparse(invoice)
  \/ \E g \in AlertRunners, document_id \in DocumentIds : RunStart(g, document_id)
  \/ \E g \in AlertRunners : RunInsert(g)
  \/ \E g \in AlertRunners : RunSelect(g)
  \/ \E g \in AlertRunners : RunUpgrade(g)
  \/ \E f \in FlushRunners, limit \in Limits : FlushStart(f, limit)
  \/ \E f \in FlushRunners : FlushRow(f)
  \/ \E f \in FlushRunners : FlushFetch(f)
  \/ \E f \in FlushRunners : FlushHeal(f)
  \/ \E f \in FlushRunners, response \in SlackResponses : FlushSend(f, response)
  \/ \E f \in FlushRunners : FlushFinalize(f)

Spec == Init /\ [][Next]_vars

\* ------------------------------------------------------------------ flush_alerts over legacy rows, with storage failures

\* A legacy row of invoice_alerts with the given id, document, rule and states
LegacyRowOf(id, document_id, rule_id, status, slack_status) ==
  [id |-> Num(id), created_at |-> Num(id), document_id |-> document_id, rule_id |-> rule_id,
   parsed_invoice_id |-> p1, status |-> status, slack_status |-> slack_status,
   slack_error |-> None, match_reason |-> None, match_payload |-> None]

\* The first storage call of flush_alerts for a row raises (the request fails, or
\* PostgREST answers with an error and _raise_for_status raises): the table is
\* left alone.  A raising claim is recorded (flush_claim_error) and the loop
\* continues; a raising auto-heal update is passed over and the loop continues.
FlushRowRaises(f) ==
  /\ fl[f].pc = "row"
  /\ fl' = [fl EXCEPT ![f] = FlushContinue([fl[f] EXCEPT !.i = @ + 1])]
  /\ ledger' = [ledger EXCEPT ![RowIndex(Get(fl[f].rows[fl[f].i], "id"))].raised = @ + 1]
  /\ UNCHANGED <<call, api, parsed_invoices, alerts, SLACK_WEBHOOK_URL, ra, reparsed>>

\* an exception that is not an HTTPException leaves flush_alerts through its
\* outer handler: flush_alerts_error is recorded and the response is a 500
FlushFailed == [FlushNew EXCEPT !.pc = "done", !.ret = "http500"]

\* A storage call after the claim raises.  For a row without document_id it is
\* the 'skipped' update, which is passed over (the row is counted as skipped);
\* otherwise it is the read of _fetch_invoice, which ends the request.
FlushFetchRaises(f) ==
  /\ fl[f].pc = "claimed"
  /\ fl' = [fl EXCEPT ![f] =
       IF ~Truthy(Get(fl[f].rows[fl[f].i], "document_id"))
       THEN FlushContinue([fl[f] EXCEPT !.i = @ + 1, !.skipped = @ + 1])
       ELSE FlushFailed]
  /\ ledger' = [ledger EXCEPT ![RowIndex(Get(fl[f].rows[fl[f].i], "id"))].raised = @ + 1]
  /\ UNCHANGED <<call, api, parsed_invoices, alerts, SLACK_WEBHOOK_URL, ra, reparsed>>

\* The write-back of the legacy self-heal raises: it is passed over
FlushHealRaises(f) ==
  /\ fl[f].pc = "heal"
  /\ fl' = [fl EXCEPT ![f].pc = "send", ![f].new_mp = None]
  /\ ledger' = [ledger EXCEPT ![RowIndex(Get(fl[f].rows[fl[f].i], "id"))].raised = @ + 1]
  /\ UNCHANGED <<call, api, parsed_invoices, alerts, SLACK_WEBHOOK_URL, ra, reparsed>>

\* The 'skipped' write, or the terminal write after _slack_post, raises: the
\* request ends (_slack_post itself never raises)
FlushWriteRaises(f) ==
  /\ \/ fl[f].pc = "posted"
     \/ fl[f].pc = "send" /\ (~FeeIsActionable(fl[f].fee) \/ ~SLACK_WEBHOOK_URL)
  /\ fl' = [fl EXCEPT ![f] = FlushFailed]
  /\ ledger' = [ledger EXCEPT ![RowIndex(Get(fl[f].rows[fl[f].i], "id"))].raised = @ + 1]
  /\ UNCHANGED <<call, api, parsed_invoices, alerts, SLACK_WEBHOOK_URL, ra, reparsed>>

d2 == Str(<<"d","2">>)

\* slack_status as legacy rows hold it: NULL, blank, 'pending', 'null'
LegacySlackStatuses == {None, Str(<<>>), Str(pending), Str(null)}

\* The first row of a legacy table: any status and slack_status with the invoice
\* at hand, or a pending row without document_id or whose invoice is gone
LegacyFirstRows ==
  {LegacyRowOf(1, d1, r1, status, slack_status) :
     status \in {None, Str(sent)}, slack_status \in LegacySlackStatuses}
  \cup {LegacyRowOf(1, document_id, r1, None, Str(pending)) : document_id \in {None, d2}}

\* invoice_alerts with two legacy rows: the first as above, the second a pending
\* row of rule r2; the table returns them in either order
LegacyTables ==
  {<<first, LegacyRowOf(2, d1, r2, None, Str(pending))>> : first \in LegacyFirstRows}
  \cup {<<LegacyRowOf(2, d1, r2, None, Str(pending)), first>> : first \in LegacyFirstRows}

InitLegacy ==
  /\ parsed_invoices \in {[d \in {d1} |-> invoice] : invoice \in {InvoiceCharged, InvoiceWaived}}
  /\ alerts \in LegacyTables
  /\ SLACK_WEBHOOK_URL \in BOOLEAN
  /\ fl = [f \in FlushRunners |-> FlushNew]
  /\ ra = [g \in AlertRunners |-> AlertsNew]
  /\ ledger = [j \in 1..Len(alerts) |-> LedgerNew]
  /\ reparsed = 0
  /\ api = ApiNew
  /\ call = NoCall

\* flush_alerts invocations, any storage call of which may raise
NextLegacy ==
  \/ \E f \in FlushRunners, limit \in Limits : FlushStart(f, limit)
  \/ \E f \in FlushRunners : FlushRow(f)
  \/ \E f \in FlushRunners : FlushRowRaises(f)
  \/ \E f \in FlushRunners : FlushFetch(f)
  \/ \E f \in FlushRunners : FlushHeal(f)
  \/ \E f \in FlushRunners, response \in SlackResponses : FlushSend(f, response)
  \/ \E f \in FlushRunners : FlushFinalize(f)
  \/ \E f \in FlushRunners : FlushFetchRaises(f)
  \/ \E f \in FlushRunners : FlushHealRaises(f)
  \/ \E f \in FlushRunners : FlushWriteRaises(f)

SpecLegacy == InitLegacy /\ [][NextLegacy]_vars

\* ------------------------------------------------------------------ flush_alerts, the claim PATCH retried

\* what one attempt of the claim PATCH does: "response" (applied and answered),
\* "lost" (applied server-side, the answer lost to a read timeout), "refused"
\* (the connection is reset before the server sees the request)
PatchOutcomes == {"response", "lost", "refused"}

\* the attempt as requests.request sees it
AsRequest(outcome) ==
  CASE outcome = "response" -> Response
    [] outcome = "lost" -> Raises(ReadTimeout)
    [] outcome = "refused" -> Raises(ConnectionReset)

\* safe_update_where(table, patch, eq=) through _request_with_retry, outcomes[i]
\* being what the i-th attempt does: the rows after the attempts made, the number
\* of rows the answered attempt returned, and whether the call raised instead
SafeUpdateWhereRetried(table, patch, eq, outcomes) ==
  LET res == RequestWithRetry(0, DefaultTries,
                              [i \in 1..DefaultTries |-> AsRequest(outcomes[i])])
      before == IF \E i \in 1..(res.attempts - 1) : outcomes[i] = "lost"
                THEN SafeUpdateWhere(table, patch, eq).rows
                ELSE table
      last == SafeUpdateWhere(before, patch, eq)
  IN [rows |-> IF outcomes[res.attempts] = "refused" THEN before ELSE last.rows,
      n |-> IF res.outcome.k = "response" THEN last.n ELSE 0,
      raised |-> res.outcome.k = "raise"]

\* CLAIM by invocation f of the row it is at, the first attempt of the PATCH
\* failing with a transient error: a call that raises in the end is recorded
\* (flush_claim_error) and the loop continues; an answered one is the claim
FlushClaimRetriedOf(f, me, a, claim) ==
  IF claim.raised
  THEN /\ alerts' = claim.rows
       /\ fl' = [fl EXCEPT ![f] = FlushContinue([me EXCEPT !.i = @ + 1])]
       /\ ledger' = [ledger EXCEPT ![RowIndex(Get(a, "id"))].raised = @ + 1]
  ELSE IF claim.n # 1
  THEN /\ alerts' = claim.rows
       /\ fl' = [fl EXCEPT ![f] = FlushContinue([me EXCEPT !.i = @ + 1])]
       /\ ledger' = [ledger EXCEPT ![RowIndex(Get(a, "id"))].refusals = @ + 1]
  ELSE FlushClaim(f, me, a, claim)

FlushClaimRetried(f, outcomes) ==
  /\ fl[f].pc = "row"
  /\ StatusOf(fl[f].rows[fl[f].i]) # sent
  /\ outcomes[1] # "response"
  /\ FlushClaimRetriedOf(f, fl[f], fl[f].rows[fl[f].i],
        SafeUpdateWhereRetried(alerts, [slack_status |-> Str(sending), slack_error |-> None],
                               [id |-> Get(fl[f].rows[fl[f].i], "id"),
                                slack_status |-> Str(pending)],
                               outcomes))
  /\ UNCHANGED <<call, api, parsed_invoices, SLACK_WEBHOOK_URL, ra, reparsed>>

\* what the attempts of one claim PATCH do: the first attempt, or every attempt,
\* is lost or refused; an attempt after the failing ones is answered
PatchScripts ==
  {[i \in 1..DefaultTries |-> IF i <= failing THEN outcome ELSE "response"]
     : failing \in {1, DefaultTries}, outcome \in PatchOutcomes \ {"response"}}

\* flush_alerts invocations whose claim PATCH may meet transient transport errors
NextRetry ==
  \/ \E f \in FlushRunners, limit \in Limits : FlushStart(f, limit)
  \/ \E f \in FlushRunners : FlushRow(f)
  \/ \E f \in FlushRunners, outcomes \in PatchScripts : FlushClaimRetried(f, outcomes)
  \/ \E f \in FlushRunners : FlushFetch(f)
  \/ \E f \in FlushRunners : FlushHeal(f)
  \/ \E f \in FlushRunners, response \in SlackResponses : FlushSend(f, response)
  \/ \E f \in FlushRunners : FlushFinalize(f)

SpecRetry == InitLegacy /\ [][NextRetry]_vars

\* ------------------------------------------------------------------ flush_alerts, invoked again and again

\* invoice_alerts with two rows, both 'pending'
PendingTables ==
  {table \in LegacyTables :
     \A j \in 1..Len(table) : Get(table[j], "slack_status") = Str(pending)}

InitPending ==
  /\ parsed_invoices \in {[d \in {d1} |-> invoice] : invoice \in {InvoiceCharged, InvoiceWaived}}
  /\ alerts \in PendingTables
  /\ SLACK_WEBHOOK_URL \in BOOLEAN
  /\ fl = [f \in FlushRunners |-> FlushNew]
  /\ ra = [g \in AlertRunners |-> AlertsNew]
  /\ ledger = [j \in 1..Len(alerts) |-> LedgerNew]
  /\ reparsed = 0
  /\ api = ApiNew
  /\ call = NoCall

\* the invocation has ended; the scheduler will call POST /jobs/flush_alerts again
FlushAgain(f) ==
  /\ fl[f].pc = "done"
  /\ fl' = [fl EXCEPT ![f] = FlushNew]
  /\ UNCHANGED <<call, api, parsed_invoices, alerts, SLACK_WEBHOOK_URL, ra, ledger, reparsed>>

\* the steps of invocation f, no storage call and no Slack post raising; the
\* request's limit may lie below or above the range it is clamped to
FlushSteps(f) ==
  \/ \E limit \in Limits \cup {0, 150} : FlushStart(f, limit)
  \/ FlushRow(f)
  \/ FlushFetch(f)
  \/ FlushHeal(f)
  \/ \E response \in SlackResponses : FlushSend(f, response)
  \/ FlushFinalize(f)
  \/ FlushAgain(f)

NextAgain == \E f \in FlushRunners : FlushSteps(f)

\* invocation f can take a step of its run: one under way always can, one not yet
\* started when FlushStart lets it
CanStep(f) ==
  /\ fl[f].pc # "done"
  /\ fl[f].pc = "new" => ((IF f = 1 THEN TRUE ELSE fl[f - 1].pc # "new") /\ Active < MaxActive)

\* flush_alerts is invoked again after each invocation has ended: weak fairness
\* of FlushAgain.  Every invocation runs to its end (no crash): weak fairness of
\* the steps of its run, written out, CanStep(f) being their ENABLED and a
\* change of fl[f] their occurrence.
SpecAgain ==
  /\ InitPending /\ [][NextAgain]_vars
  /\ \A f \in FlushRunners :
       /\ WF_vars(FlushAgain(f))
       /\ []<>(~CanStep(f)) \/ []<><<CanStep(f) /\ fl'[f] # fl[f]>>_vars

\* ------------------------------------------------------------------ run_alerts with storage failures

\* an exception that is not an HTTPException leaves run_alerts through its outer
\* handler: run_alerts_error is recorded and the response is a 500
RunFailed == [AlertsNew EXCEPT !.pc = "done", !.ret = "http500"]

\* safe_insert raises and the error is not a duplicate key: it is raised again
RunInsertRaises(g) ==
  /\ ra[g].pc = "insert"
  /\ ra' = [ra EXCEPT ![g] = RunFailed]
  /\ UNCHANGED <<call, api, parsed_invoices, alerts, SLACK_WEBHOOK_URL, fl, ledger, reparsed>>

\* the row of the pair that invocation g is at
PairIndex(g) ==
  CHOOSE j \in 1..Len(alerts) :
    /\ Get(alerts[j], "rule_id") = Get(Rules[ra[g].k], "id")
    /\ Get(alerts[j], "parsed_invoice_id") = Get(ra[g].invoice, "id")

\* Fault: a failure on the upgrade path ends the request
RunUpgradeAborts(g) ==
  /\ ra[g].pc \in {"duplicate", "upgrade"}
  /\ ra' = [ra EXCEPT ![g] = RunFailed]
  /\ ledger' = [ledger EXCEPT ![PairIndex(g)].raised = @ + 1]
  /\ UNCHANGED <<call, api, parsed_invoices, alerts, SLACK_WEBHOOK_URL, fl, reparsed>>

\* safe_select_one or safe_update of the upgrade path raises: alert_upgrade_failed
\* is recorded and the loop continues with the next rule
RunUpgradeRaises(g) ==
  /\ ra[g].pc \in {"duplicate", "upgrade"}
  /\ ra' = [ra EXCEPT ![g] = RunContinue([ra[g] EXCEPT !.k = @ + 1])]
  /\ ledger' = [ledger EXCEPT ![PairIndex(g)].raised = @ + 1]
  /\ UNCHANGED <<call, api, parsed_invoices, alerts, SLACK_WEBHOOK_URL, fl, reparsed>>

\* run_alerts invocations, any storage call of which may raise
NextStorage ==
  \/ \E g \in AlertRunners, document_id \in DocumentIds : RunStart(g, document_id)
  \/ \E g \in AlertRunners : RunInsert(g)
  \/ \E g \in AlertRunners : RunSelect(g)
  \/ \E g \in AlertRunners : RunUpgrade(g)
  \/ \E g \in AlertRunners : RunInsertRaises(g)
  \/ \E g \in AlertRunners : RunUpgradeRaises(g)

SpecStorage == Init /\ [][NextStorage]_vars

\* ------------------------------------------------------------------ api_alerts

\* the columns api_alerts selects from invoice_alerts
ApiColumns(row) ==
  [key \in DOMAIN row \cap {"id", "created_at", "document_id", "rule_id", "status",
                            "slack_status", "match_payload"} |-> row[key]]

\* the columns api_alerts selects from parsed_invoices
InvoiceColumns ==
  {"document_id", "vendor_name", "tail_number", "airport_code", "currency",
   "handling_fee", "service_fee", "surcharge"}

\* safe_select_in(table, columns, "document_id", values): the rows whose
\* document_id is one of `values`, with the columns asked for
SafeSelectIn(table, columns, values) ==
  {[key \in columns \cap (DOMAIN table[d] \cup {"document_id"}) |->
      IF key = "document_id" THEN d ELSE table[d][key]] :
   d \in values \cap DOMAIN table}

\* _safe_json_loads(r.get("match_payload")) is a non-empty list: mp.get raises
PayloadRaises(r) ==
  LET mp == SafeJsonLoads(Get(r, "match_payload"))
  IN "k" \in DOMAIN mp /\ mp.k = "list" /\ mp.l # <<>>

\* mp = _safe_json_loads(r.get("match_payload")) or {}
PayloadOf(r) ==
  LET mp == SafeJsonLoads(Get(r, "match_payload"))
  IN IF "k" \in DOMAIN mp THEN EmptyDict ELSE mp

\* mp.get("matched_line_items") or [], [] when it is not a list
CachedLineItems(mp) ==
  LET v == Get(mp, "matched_line_items")
  IN IF v.k = "list" THEN v.l ELSE <<>>

\* (fee.get("fee_name") or "").strip() or None, _to_float(fee.get("fee_amount"))
FeeStripped(fee) ==
  LET fee_name == Strip(Or(fee.fee_name, Str(<<>>)).s)
  IN [fee_name |-> IF fee_name = <<>> THEN None ELSE Str(fee_name),
      fee_amount |-> ToFloat(fee.fee_amount)]

\* the locals of pass 1 kept for pass 2, the fee probed with invoice=None
Probe(r, mp, rule_name, charged_only, matched_line_items) ==
  [r |-> r, mp |-> mp, rule_name |-> rule_name, charged_only |-> charged_only,
   matched_line_items |-> matched_line_items,
   fee |-> FeeStripped(PickFeeDetails(matched_line_items, rule_name, None, rule_name,
                                      charged_only))]

\* rule_name and charged_only of a row with payload mp and rule `rule`
ProbeWith(r, mp, rule) ==
  Probe(r, mp, Or(Get(mp, "rule_name"), Or(Get(rule, "name"), None)),
        Truthy(Get(rule, "require_charged_line_items")), CachedLineItems(mp))

\* pass 1 for one row
Candidate(r) == ProbeWith(r, PayloadOf(r), RuleById(Get(r, "rule_id")))

\* the candidates among the probed rows: the rows that raise and the rows whose
\* probed fee is not actionable are dropped
Actionable(probed) ==
  SelectSeq(probed, LAMBDA c : IF PayloadRaises(c.r) THEN FALSE ELSE FeeIsActionable(c.fee))

\* pass 1
Candidates(rows) == Actionable([i \in 1..Len(rows) |-> Candidate(rows[i])])

\* doc_ids: the document ids of the candidates
DocIds(candidates) ==
  {candidates[i].r.document_id :
     i \in {h \in 1..Len(candidates) : Truthy(Get(candidates[h].r, "document_id"))}}

\* {row["document_id"]: row for row in invoice_rows if row.get("document_id")}
ByDocument(invoice_rows) ==
  [d \in {row.document_id : row \in invoice_rows} |->
     CHOOSE row \in invoice_rows : row.document_id = d]

\* invoices_by_doc.get(document_id) if document_id else None
InvoiceOf(c, invoices_by_doc) ==
  IF Truthy(Get(c.r, "document_id")) /\ c.r.document_id \in DOMAIN invoices_by_doc
  THEN invoices_by_doc[c.r.document_id]
  ELSE None

\* the fee of a candidate in pass 2: resolved again when its invoice was fetched
SecondFee(c, invoice) ==
  IF DictTruthy(invoice)
  THEN FeeStripped(PickFeeDetails(c.matched_line_items, c.rule_name, invoice, c.rule_name,
                                  c.charged_only))
  ELSE c.fee

\* _infer_airport_code(invoice, doc) for an invoice without airport_code: the
\* vendor names at hand carry no " - XXX" suffix and `documents` holds no row
InferAirportCode(invoice, doc) == None

\* the output row of a candidate
OutputRow(c, invoice, fee) ==
  LET airport_code == Or(Get(invoice, "airport_code"), Or(Get(c.mp, "airport_code"), None))
  IN [id |-> Get(c.r, "id"), created_at |-> Get(c.r, "created_at"),
      document_id |-> Get(c.r, "document_id"), status |-> Get(c.r, "status"),
      slack_status |-> Get(c.r, "slack_status"), rule_name |-> c.rule_name,
      vendor |-> Or(Get(invoice, "vendor_name"),
                    Or(Get(c.mp, "vendor"), Or(Get(c.mp, "fbo"), None))),
      tail |-> Or(Get(invoice, "tail_number"), Or(Get(c.mp, "tail"), None)),
      airport_code |-> IF Truthy(airport_code) THEN airport_code
                       ELSE InferAirportCode(invoice, None),
      fee_name |-> fee.fee_name, fee_amount |-> ToFloat(fee.fee_amount),
      currency |-> Or(Get(invoice, "currency"), Or(Get(c.mp, "currency"), None))]

\* str(v or "")
StrOf(v) == Or(v, Str(<<>>)).s

\* the status, slack_status and q filters on an output row
PassesFilters(row, qn, status, slack_status) ==
  /\ Truthy(status) => Lower(StrOf(row.status)) = Lower(status.s)
  /\ Truthy(slack_status) => Lower(StrOf(row.slack_status)) = Lower(slack_status.s)
  /\ qn # <<>> =>
       Contains(qn, Lower(Join(<<StrOf(row.document_id), StrOf(row.rule_name),
                                 StrOf(row.vendor), StrOf(row.tail),
                                 StrOf(row.airport_code), StrOf(row.fee_name)>>)))

\* pass 2 for one candidate: the output row, and whether it is put out: not
\* when its invoice was fetched and the fee resolved with it is not actionable
SecondWith(c, invoice, fee) ==
  [put |-> DictTruthy(invoice) => FeeIsActionable(fee), row |-> OutputRow(c, invoice, fee)]

Second(c, invoice) == SecondWith(c, invoice, SecondFee(c, invoice))

\* sorted(out, key=created_at, reverse=True): stable, newest first
RECURSIVE SortedNewestFirst(_)

\* `last` put into the sorted `front`, after the rows that are not older
NewestInsert(front, last) ==
  SelectSeq(front, LAMBDA r : CreatedAtKey(r) >= CreatedAtKey(last))
  \o <<last>>
  \o SelectSeq(front, LAMBDA r : CreatedAtKey(r) < CreatedAtKey(last))

SortedNewestFirst(rows) ==
  IF rows = <<>> THEN <<>>
  ELSE NewestInsert(SortedNewestFirst(SubSeq(rows, 1, Len(rows) - 1)), rows[Len(rows)])

\* the rows of a sequence of pass 2 results
RowsOf(results) == [i \in 1..Len(results) |-> results[i].row]

\* out[:limit]
Cut(out, limit) == SubSeq(out, 1, IF Len(out) < limit THEN Len(out) ELSE limit)

\* the rows put out among the pass 2 results, sorted and cut to `limit`
Output(results, me) ==
  Cut(SortedNewestFirst(RowsOf(SelectSeq(results,
        LAMBDA res : IF res.put
                     THEN PassesFilters(res.row, me.qn, me.status, me.slack_status)
                     ELSE FALSE))), me.limit)

\* pass 2, the sort and the cut to `limit`: the response
Answered(me, invoices_by_doc) ==
  [me EXCEPT !.pc = "done", !.ret = "ok", !.invoices_by_doc = invoices_by_doc,
             !.out = Output([i \in 1..Len(me.candidates) |->
                               Second(me.candidates[i],
                                      InvoiceOf(me.candidates[i], invoices_by_doc))], me)]

\* max(1, min(int(limit), 500))
ApiLimit(limit) ==
  LET low == IF limit < 500 THEN limit ELSE 500
  IN IF low > 1 THEN low ELSE 1

\* the locals after pass 1; without document ids there is no batch fetch
Probed(me) ==
  IF DocIds(me.candidates) = {} THEN Answered(me, EmptyDict)
  ELSE [me EXCEPT !.pc = "fetch"]

\* GET /api/alerts: the alert rows and the rules are read, pass 1
ApiStart(limit, q, status, slack_status) ==
  /\ api.pc = "new"
  /\ api' = Probed([ApiNew EXCEPT
              !.limit = ApiLimit(limit), !.qn = Lower(Strip(StrOf(q))),
              !.status = status, !.slack_status = slack_status,
              !.rows = [j \in 1..Len(alerts) |-> ApiColumns(alerts[j])],
              !.candidates = Candidates([j \in 1..Len(alerts) |-> ApiColumns(alerts[j])])])
  /\ UNCHANGED <<call, parsed_invoices, alerts, SLACK_WEBHOOK_URL, fl, ra, ledger, reparsed>>

\* the read of invoice_alerts raises: an empty ok response
ApiRowsRaise ==
  /\ api.pc = "new"
  /\ api' = [ApiNew EXCEPT !.pc = "done", !.ret = "ok"]
  /\ UNCHANGED <<call, parsed_invoices, alerts, SLACK_WEBHOOK_URL, fl, ra, ledger, reparsed>>

\* _fetch_rules raises: no handler surrounds it, the framework answers 500
ApiRulesRaise ==
  /\ api.pc = "new"
  /\ api' = [ApiNew EXCEPT !.pc = "done", !.ret = "http500",
                           !.rows = [j \in 1..Len(alerts) |-> ApiColumns(alerts[j])]]
  /\ UNCHANGED <<call, parsed_invoices, alerts, SLACK_WEBHOOK_URL, fl, ra, ledger, reparsed>>

\* the batch fetch of the candidates' invoices, pass 2 and the response
ApiFetch ==
  /\ api.pc = "fetch"
  /\ api' = Answered(api, ByDocument(SafeSelectIn(parsed_invoices, InvoiceColumns,
                                                  DocIds(api.candidates))))
  /\ UNCHANGED <<call, parsed_invoices, alerts, SLACK_WEBHOOK_URL, fl, ra, ledger, reparsed>>

\* the batch fetch raises: pass 2 goes on without invoices
ApiFetchRaises ==
  /\ api.pc = "fetch"
  /\ api' = Answered(api, EmptyDict)
  /\ UNCHANGED <<call, parsed_invoices, alerts, SLACK_WEBHOOK_URL, fl, ra, ledger, reparsed>>

\* the row run_alerts writes for rule k and the charged invoice
CreatedRow(id, k) ==
  AlertRow(d1, Rules[k], InvoiceCharged, RuleMatches(Rules[k], InvoiceCharged), Num(id),
           Num(id))

\* a pending row whose cached evidence is the handling line item with `total`
CachedRow(id, document_id, rule_id, total) ==
  [LegacyRowOf(id, document_id, rule_id, Str(pending), Str(pending)) EXCEPT
     !.match_payload = [rule_name |-> Get(RuleById(rule_id), "name"),
                        matched_keywords |-> List(<<handling>>),
                        matched_line_items |-> List(<<HandlingItem(total)>>)]]

\* The alert rows api_alerts may meet under one id: rows as run_alerts writes
\* them, rows with cached evidence charged or waived, with or without a
\* document whose invoice exists, a delivered legacy row without evidence, and
\* a row whose match_payload is a JSON list
ApiRows(id) ==
  {CreatedRow(id, k) : k \in {1, 2}}
  \cup {CachedRow(id, document_id, rule_id, total) :
          document_id \in {d1, d2, None}, rule_id \in {r1, r2},
          total \in {Num(15000), Num(0)}}
  \cup {LegacyRowOf(id, d1, r1, Str(sent), Str(sent)),
        [LegacyRowOf(id, d1, r1, Str(pending), Str(pending)) EXCEPT
           !.match_payload = List(<<handling>>)]}

ApiTables == {<<first, second>> : first \in ApiRows(1), second \in ApiRows(2)}

InitApi ==
  /\ parsed_invoices = [d \in {d1} |-> InvoiceCharged]
  /\ alerts \in ApiTables
  /\ SLACK_WEBHOOK_URL = TRUE
  /\ fl = [f \in FlushRunners |-> FlushNew]
  /\ ra = [g \in AlertRunners |-> AlertsNew]
  /\ ledger = [j \in 1..Len(alerts) |-> LedgerNew]
  /\ reparsed = 0
  /\ api = ApiNew
  /\ call = NoCall

\* the query parameters of the request
ApiLimits == {1, 100}
ApiTexts == {None, Str(<<"H","a","n","d","l","i","n","g"," ">>)}
ApiStatuses == {None, Str(<<"S","e","n","t">>)}
ApiSlackStatuses == {None, Str(pending)}

\* one GET /api/alerts, any storage read of which may raise, while the parser
\* pipeline may rewrite the invoice
NextApi ==
  \/ \E invoice \in InvoiceVersions : Reparse(invoice)
  \/ \E limit \in ApiLimits, q \in ApiTexts, status \in ApiStatuses,
        slack_status \in ApiSlackStatuses : ApiStart(limit, q, status, slack_status)
  \/ ApiRowsRaise
  \/ ApiRulesRaise
  \/ ApiFetch
  \/ ApiFetchRaises

SpecApi == InitApi /\ [][NextApi]_vars

\* ------------------------------------------------------------------ properties

Rows == 1..Len(alerts)
SlackStatus(j) == Get(alerts[j], "slack_status")
SlackStatusNext(j) == Get(alerts'[j], "slack_status")

\* the alert row a flush_alerts invocation is at, as it read it, and its index
FlushAt(f) == fl[f].rows[fl[f].i]
FlushIndex(f) == RowIndex(Get(FlushAt(f), "id"))

\* invocation f, being at pc, takes its step
FlushStep(f, pc) == fl[f].pc = pc /\ fl'[f] # fl[f]
RunStep(g, pc) == ra[g].pc = pc /\ ra'[g] # ra[g]

\* no flush_alerts invocation is between its claim of row j and its terminal write
Settled(j) ==
  \A f \in FlushRunners :
    fl[f].pc \in {"claimed", "heal", "send", "posted"} => FlushIndex(f) # j

\* C1: for every alert row, over any interleaving of run_alerts and flush_alerts
\* invocations, a Slack post is performed for that row at most once.
C1_AtMostOnePost ==
  \A j \in Rows : ledger[j].posts <= 1

C3_SentStaysSent ==
  [][\A g \in AlertRunners : \A j \in Rows :
       (RunStep(g, "upgrade")
        /\ Get(alerts[j], "id") = Get(ra[g].existing, "id")
        /\ SlackStatus(j) = Str(sent))
       => SlackStatus(j)' = Str(sent)]_vars

\* the forward steps of slack_status
ForwardSteps ==
  { <<Str(pending), Str(sending)>>, <<Str(sending), Str(sent)>>,
    <<Str(sending), Str(error)>>, <<Str(sending), Str(skipped)>> }

\* C4: every change of a row's slack_status by a step of run_alerts or
\* flush_alerts is one of pending->sending, sending->sent, sending->error,
\* sending->skipped; no step moves slack_status backwards.
C4_ForwardOnly ==
  [][\A j \in Rows :
       SlackStatus(j)' # SlackStatus(j) => <<SlackStatus(j), SlackStatus(j)'>> \in ForwardSteps]_vars

\* the rows of the pair (rule, invoice)
PairRows(rule, invoice) ==
  {j \in Rows : /\ Get(alerts[j], "rule_id") = Get(rule, "id")
                /\ Get(alerts[j], "parsed_invoice_id") = Get(invoice, "id")}

PairsUnique ==
  \A j, h \in Rows :
    ( /\ Get(alerts[j], "rule_id") = Get(alerts[h], "rule_id")
      /\ Get(alerts[j], "parsed_invoice_id") = Get(alerts[h], "parsed_invoice_id") )
    => j = h

\* a refused insert adds nothing, and the update that follows it rewrites the
\* evidence of the row read and leaves the number of rows and the other rows alone
UpgradeInPlace ==
  \A g \in AlertRunners :
    /\ (RunStep(g, "insert") /\ PairRows(Rules[ra[g].k], ra[g].invoice) # {})
       => (alerts' = alerts /\ ra'[g].pc = "duplicate")
    /\ RunStep(g, "upgrade")
       => /\ Len(alerts') = Len(alerts)
          /\ \A j \in Rows :
               IF Get(alerts[j], "id") = Get(ra[g].existing, "id")
               THEN /\ j \in PairRows(Rules[ra[g].k], ra[g].invoice)
                    /\ Get(alerts'[j], "rule_id") = Get(alerts[j], "rule_id")
                    /\ Get(alerts'[j], "parsed_invoice_id") = Get(alerts[j], "parsed_invoice_id")
                    /\ Get(alerts'[j], "match_reason") = Reason(ra[g].res.reason)
                    /\ Get(Get(alerts'[j], "match_payload"), "matched_line_items")
                         = List(ra[g].res.matched_line_items)
               ELSE alerts'[j] = alerts[j]

\* C5: in every reachable state the alert store holds at most one row per
\* (rule_id, parsed_invoice_id) pair, and a run_alerts attempt to create a row
\* for a pair that exists modifies the existing row instead of adding a second
\* one, also when two run_alerts invocations for the same invoice overlap.
C5_OneRowPerPair ==
  []PairsUnique /\ [][UpgradeInPlace]_vars

\* two overlapping run_alerts invocations: one has upgraded a row in place, the
\* other's insert for a pair that has its row was refused
C5_Witness ==
  \E g, h \in AlertRunners :
    /\ g # h
    /\ ra[g].pc \notin {"new", "done"}
    /\ ra[h].pc \in {"duplicate", "upgrade"}
    /\ \E j \in Rows : ledger[j].upgraded /\ Cardinality(PairRows(Rules[ra[h].k], ra[h].invoice)) = 1

\* both invocations of run_alerts have returned, having read the same invoice
RanTwice ==
  /\ \A g \in AlertRunners : ra[g].pc = "done" /\ ra[g].ret = "ok"
  /\ \A g, h \in AlertRunners : ra[g].invoice = ra[h].invoice

\* C6 as stated: for every (rule, invoice) pair for which the rule matches,
\* invoking run_alerts twice on unchanged data leaves exactly one alert row for
\* that pair.
C6_OneRowPerMatch ==
  RanTwice =>
    \A k \in 1..Len(Rules) :
      RuleMatches(Rules[k], ra[1].invoice).matched
      => Cardinality(PairRows(Rules[k], ra[1].invoice)) = 1

\* the rule matches the invoice and the fee run_alerts resolves is actionable
MatchesActionably(rule, invoice) ==
  /\ IsRuleEnabled(rule)
  /\ RuleMatches(rule, invoice).matched
  /\ FeeIsActionable(FeeProbe(rule, invoice, RuleMatches(rule, invoice)))

\* an insert counts in matched_alerts exactly when it adds the row; a refused
\* insert and the upgrade that follows it count nothing
CountsCreated ==
  \A g \in AlertRunners :
    /\ RunStep(g, "insert")
       => IF PairRows(Rules[ra[g].k], ra[g].invoice) # {}
          THEN /\ Len(alerts') = Len(alerts)
               /\ ra'[g].pc = "duplicate"
               /\ ra'[g].matched_alerts = ra[g].matched_alerts
          ELSE /\ Len(alerts') = Len(alerts) + 1
               /\ ra'[g].matched_alerts = ra[g].matched_alerts + 1
    /\ (RunStep(g, "duplicate") \/ RunStep(g, "upgrade"))
       => /\ Len(alerts') = Len(alerts)
          /\ ra'[g].matched_alerts = ra[g].matched_alerts

\* C6 amended: for every (rule, invoice) pair for which the rule matches and the
\* resolved fee is actionable, invoking run_alerts twice on unchanged data leaves
\* exactly one alert row for that pair; an invocation counts the pair in
\* matched_alerts when its insert adds the row, and takes the upgrade path
\* without counting it when the row exists.
C6_OneRowPerActionableMatch ==
  /\ [](RanTwice =>
          \A k \in 1..Len(Rules) :
            MatchesActionably(Rules[k], ra[1].invoice)
            => Cardinality(PairRows(Rules[k], ra[1].invoice)) = 1)
  /\ [][CountsCreated]_vars

\* run_alerts ran twice on the same invoice: the first created the rows of the
\* pairs, the second created none and upgraded
C6_Witness ==
  /\ RanTwice
  /\ ra[1].matched_alerts = 2
  /\ ra[2].matched_alerts = 0
  /\ \A j \in Rows : ledger[j].upgraded
  /\ \E k \in 1..Len(Rules) : MatchesActionably(Rules[k], ra[1].invoice)

\* the fee has a non-empty name and an amount > 0
NamedAndPositive(fee) ==
  /\ Strip(Or(fee.fee_name, Str(<<>>)).s) # <<>>
  /\ ToFloat(fee.fee_amount) # None
  /\ ToFloat(fee.fee_amount).n > 0

StatusRead(f) ==
  IF Truthy(Get(FlushAt(f), "status")) THEN Get(FlushAt(f), "status") ELSE Str(pending)

\* C8 as stated: when the Slack post for a claimed row succeeds (2xx), the flush
\* run leaves the row with slack_status='sent', status='sent' and slack_error
\* null.
C8_SentSetsStatus ==
  [][\A f \in FlushRunners :
       (FlushStep(f, "posted") /\ fl[f].slack_res.ok)
       => /\ SlackStatusNext(FlushIndex(f)) = Str(sent)
          /\ Get(alerts'[FlushIndex(f)], "status") = Str(sent)
          /\ Get(alerts'[FlushIndex(f)], "slack_error") = None]_vars

\* C8 amended: when the Slack post for a claimed row succeeds (2xx), the flush
\* run leaves the row with slack_status='sent' and slack_error null, and with the
\* status it read for the row ('pending' when that was blank), which is not
\* 'sent'.
C8_SentKeepsStatus ==
  [][\A f \in FlushRunners :
       (FlushStep(f, "posted") /\ fl[f].slack_res.ok)
       => /\ SlackStatusNext(FlushIndex(f)) = Str(sent)
          /\ Get(alerts'[FlushIndex(f)], "slack_error") = None
          /\ Get(alerts'[FlushIndex(f)], "status") = StatusRead(f)
          /\ Get(alerts'[FlushIndex(f)], "status") # Str(sent)
          /\ fl'[f].sent = fl[f].sent + 1]_vars

\* a row posted with success: slack_status 'sent', status still 'pending'
C8_Witness ==
  \E j \in Rows :
    /\ SlackStatus(j) = Str(sent)
    /\ Get(alerts[j], "status") = Str(pending)
    /\ Get(alerts[j], "slack_error") = None
    /\ ledger[j].posts = 1

\* the run's _slack_post for the row it is at comes back failed: the HTTP post
\* answered with a failure, or the webhook is not configured
PostFails(f) ==
  \/ FlushStep(f, "posted") /\ ~fl[f].slack_res.ok
  \/ FlushStep(f, "send") /\ NamedAndPositive(fl[f].fee) /\ ~SLACK_WEBHOOK_URL

\* the length of the diagnostic JSON of that failure
DiagnosticLen(f) ==
  IF fl[f].pc = "posted" THEN fl[f].slack_res.len ELSE SlackNotSetLen

\* C9 as stated: when the Slack post for a claimed row fails (non-2xx, exception,
\* or not configured), the flush run leaves the row with slack_status='error',
\* status='error' and slack_error set to the diagnostic JSON truncated to at most
\* 1000 characters.
C9_ErrorSetsStatus ==
  [][\A f \in FlushRunners :
       PostFails(f)
       => /\ SlackStatusNext(FlushIndex(f)) = Str(error)
          /\ Get(alerts'[FlushIndex(f)], "status") = Str(error)
          /\ Get(alerts'[FlushIndex(f)], "slack_error").k = "text"
          /\ Get(alerts'[FlushIndex(f)], "slack_error").len <= 1000]_vars

\* C9 amended: when the Slack post for a claimed row fails (non-2xx, exception,
\* or not configured), the flush run leaves the row with slack_status='error',
\* with the status it read for the row ('pending' when that was blank), and with
\* slack_error set to the first 1000 characters of the diagnostic JSON.
C9_ErrorKeepsStatus ==
  [][\A f \in FlushRunners :
       PostFails(f)
       => /\ SlackStatusNext(FlushIndex(f)) = Str(error)
          /\ Get(alerts'[FlushIndex(f)], "status") = StatusRead(f)
          /\ Get(alerts'[FlushIndex(f)], "slack_error").k = "text"
          /\ Get(alerts'[FlushIndex(f)], "slack_error").len
               = (IF DiagnosticLen(f) < 1000 THEN DiagnosticLen(f) ELSE 1000)
          /\ fl'[f].errored = fl[f].errored + 1]_vars

\* a row whose post failed with a diagnostic longer than slack_error keeps:
\* slack_status 'error', status still 'pending', slack_error cut to 1000
C9_Witness ==
  \E j \in Rows :
    /\ SlackStatus(j) = Str(error)
    /\ Get(alerts[j], "status") = Str(pending)
    /\ Get(alerts[j], "slack_error").k = "text"
    /\ Get(alerts[j], "slack_error").len = 1000
    /\ ledger[j].posts = 1

\* with the webhook unset, the step of a flush run for a claimed row whose fee is
\* actionable: no HTTP post, the row written 'error' with the reason _slack_post
\* gave, errored incremented and sent left alone; and the claim before it moved
\* the row from 'pending' to 'sending'
NoWebhookStep ==
  \A f \in FlushRunners :
    /\ (FlushStep(f, "row") /\ fl'[f].pc = "claimed")
       => /\ SlackStatus(FlushIndex(f)) = Str(pending)
          /\ SlackStatusNext(FlushIndex(f)) = Str(sending)
    /\ (~SLACK_WEBHOOK_URL /\ FlushStep(f, "send") /\ NamedAndPositive(fl[f].fee))
       => /\ ledger' = ledger
          /\ SlackStatusNext(FlushIndex(f)) = Str(error)
          /\ Get(alerts'[FlushIndex(f)], "slack_error")
               = [k |-> "text", of |-> "SLACK_WEBHOOK_URL not set", len |-> SlackNotSetLen]
          /\ fl'[f].errored = fl[f].errored + 1
          /\ fl'[f].sent = fl[f].sent

\* C10: with no Slack webhook configured, a flush run over a pending actionable
\* alert performs no HTTP post, moves the row pending->sending->error with
\* slack_error containing the skip reason, and increments the errored count while
\* the sent count is unchanged.
C10_NoWebhookErrors ==
  /\ [](~SLACK_WEBHOOK_URL => \A j \in Rows : ledger[j].posts = 0)
  /\ [][NoWebhookStep]_vars

\* with the webhook unset a flush run has returned with an errored row that was
\* claimed, never posted, and carries the reason
C10_Witness ==
  /\ ~SLACK_WEBHOOK_URL
  /\ \E f \in FlushRunners :
       fl[f].pc = "done" /\ fl[f].errored >= 1 /\ fl[f].sent = 0
  /\ \E j \in Rows :
       /\ SlackStatus(j) = Str(error)
       /\ Get(alerts[j], "slack_error").k = "text"
       /\ Get(alerts[j], "slack_error").of = "SLACK_WEBHOOK_URL not set"
       /\ ledger[j].claims >= 1
       /\ ledger[j].posts = 0

\* the sent, errored and skipped counts of a flush run
FlushCounts(me) == <<me.sent, me.errored, me.skipped>>

\* the run has moved past the row it was at, or has returned
MovedOn(f) == fl'[f].pc = "done" \/ fl'[f].i > fl[f].i

\* a step of run f leaves alone every row other than the one it is at, and makes
\* no post for any of them
OnlyOwnRow(f) ==
  \A j \in Rows :
    j # FlushIndex(f) => (alerts'[j] = alerts[j] /\ ledger'[j].posts = ledger[j].posts)

\* C11: when a flush run's claim update for a row affects 0 rows, or the claim
\* call raises, the run makes no Slack post for the row, writes nothing further
\* to it, changes none of its sent/errored/skipped counts and continues with the
\* next row: the step leaves the table, the posts and the counts alone and moves
\* past the row, and a run never goes back to a row or touches a row other than
\* the one it is at.
C11_RefusedClaimSkips ==
  [][\A f \in FlushRunners :
       /\ (FlushStep(f, "row") /\ StatusOf(FlushAt(f)) # sent /\ fl'[f].pc # "claimed")
          => /\ alerts' = alerts
             /\ \A j \in Rows : ledger'[j].posts = ledger[j].posts
             /\ FlushCounts(fl'[f]) = FlushCounts(fl[f])
             /\ MovedOn(f)
       /\ (fl[f].pc \notin {"new", "done"} /\ fl'[f] # fl[f])
          => /\ fl'[f].pc = "done" \/ fl'[f].i >= fl[f].i
             /\ OnlyOwnRow(f)]_vars

\* a run has returned with nothing sent, errored or skipped: its claim of one row
\* was refused (the other run holds that row) and its claim of the other raised,
\* and that row is still 'pending' and never posted
C11_Witness ==
  /\ \E f \in FlushRunners :
       fl[f].pc = "done" /\ fl[f].ret = "ok" /\ FlushCounts(fl[f]) = <<0, 0, 0>>
  /\ \E j \in Rows :
       /\ ledger[j].raised >= 1
       /\ ledger[j].claims = 0
       /\ ledger[j].posts = 0
       /\ SlackStatus(j) = Str(pending)
  /\ \E h \in Rows : ledger[h].refusals >= 1 /\ ledger[h].claims = 1

\* the first storage call of run f for the row it is at goes through
FirstCallReturns(f) ==
  FlushStep(f, "row") /\ ledger'[FlushIndex(f)].raised = ledger[FlushIndex(f)].raised

\* C12: a row with status='sent' whose slack_status is blank, 'pending' or 'null'
\* is, when a flush run reaches it, set to slack_status='sent' (slack_error null)
\* with no claim and no Slack post, and is not processed further in that run; no
\* row with status 'sent' is ever claimed or posted.
C12_AutoHeal ==
  /\ [][\A f \in FlushRunners :
          (FirstCallReturns(f) /\ StatusOf(FlushAt(f)) = sent
           /\ SlackStatusOf(FlushAt(f)) \in {<<>>, pending, null})
          => /\ SlackStatusNext(FlushIndex(f)) = Str(sent)
             /\ Get(alerts'[FlushIndex(f)], "slack_error") = None
             /\ ledger' = ledger
             /\ FlushCounts(fl'[f]) = FlushCounts(fl[f])
             /\ MovedOn(f)
             /\ OnlyOwnRow(f)]_vars
  /\ [](\A j \in Rows :
          StatusOf(alerts[j]) = sent => (ledger[j].claims = 0 /\ ledger[j].posts = 0))

\* a row with status 'sent' has been set to slack_status 'sent' by a run that
\* went on to claim the next row; the healed row was never claimed or posted
C12_Witness ==
  \E j, h \in Rows :
    /\ StatusOf(alerts[j]) = sent
    /\ SlackStatus(j) = Str(sent)
    /\ ledger[j].claims = 0 /\ ledger[j].refusals = 0 /\ ledger[j].posts = 0
    /\ h > j
    /\ ledger[h].claims = 1

\* C13: a row whose slack_status is blank or null and whose status is not 'sent'
\* is normalized to 'pending' before the claim attempt, so that the flush run
\* that reaches it claims it (the row goes to 'sending', on its way to sent, error
\* or skipped).
C13_BlankIsClaimed ==
  [][\A f \in FlushRunners :
       (FirstCallReturns(f) /\ StatusOf(FlushAt(f)) # sent
        /\ SlackStatusOf(FlushAt(f)) \in {<<>>, null}
        /\ alerts[FlushIndex(f)] = Patch(alerts[FlushIndex(f)], FlushAt(f)))
       => /\ fl'[f].pc = "claimed"
          /\ SlackStatusNext(FlushIndex(f)) = Str(sending)]_vars

\* the match_payload of the row run f is at, as the run read it
PayloadRead(f) == DictOr(SafeJsonLoads(Get(FlushAt(f), "match_payload")))

\* the rule of that row and the name the run uses for it
RuleRead(f) == RuleById(Get(FlushAt(f), "rule_id"))
RuleNameRead(f) == Or(Or(Get(PayloadRead(f), "rule_name"), Get(RuleRead(f), "name")), Str(Fee))

\* the row carries no non-empty matched_line_items list
LacksEvidence(f) ==
  LET cached == Get(PayloadRead(f), "matched_line_items")
  IN cached.k # "list" \/ cached.l = <<>>

\* what the rule matcher returns for the row's rule and the invoice in the table
Rematch(f) == RuleMatches(RuleRead(f), parsed_invoices[Get(FlushAt(f), "document_id")])

\* run f fetches the invoice of the row it has claimed
Fetches(f) == FlushStep(f, "claimed") /\ fl'[f].pc \in {"heal", "send"}

\* C14: when a claimed row's match_payload carries no non-empty
\* matched_line_items list, its rule is known and the rule matcher matches the
\* rule against the invoice, the flush run resolves the fee from the matcher's
\* matched line items and writes rule_name, matched_keywords and
\* matched_line_items back into the row's match_payload.
C14_LegacySelfHeal ==
  [][\A f \in FlushRunners :
       /\ (Fetches(f) /\ LacksEvidence(f) /\ RuleRead(f) # None /\ Rematch(f).matched)
          => /\ fl'[f].pc = "heal"
             /\ fl'[f].fee =
                  PickFeeDetails(Rematch(f).matched_line_items, RuleNameRead(f),
                                 parsed_invoices[Get(FlushAt(f), "document_id")],
                                 RuleNameRead(f),
                                 Truthy(Get(RuleRead(f), "require_charged_line_items")))
             /\ Get(fl'[f].new_mp, "rule_name") = RuleNameRead(f)
             /\ Get(fl'[f].new_mp, "matched_keywords") = List(Rematch(f).matched_keywords)
             /\ Get(fl'[f].new_mp, "matched_line_items") = List(Rematch(f).matched_line_items)
       /\ (FlushStep(f, "heal") /\ ledger' = ledger)
          => /\ Get(alerts'[FlushIndex(f)], "match_payload") = fl[f].new_mp
             /\ OnlyOwnRow(f)
             /\ fl'[f].pc = "send"
             /\ fl'[f].fee = fl[f].fee]_vars

\* a legacy row without evidence was claimed, its evidence recomputed and written
\* back, and its fee, resolved from the recomputed line item, posted
C14_Witness ==
  \E j \in Rows :
    /\ Get(alerts[j], "match_payload") # None
    /\ Get(Get(alerts[j], "match_payload"), "matched_line_items")
         = List(<<HandlingItem(Num(15000))>>)
    /\ Get(Get(alerts[j], "match_payload"), "rule_name") = Str(HandlingFee)
    /\ ledger[j].claims = 1
    /\ ledger[j].posts = 1
    /\ SlackStatus(j) = Str(sent)

\* C15: when run_alerts hits the duplicate key for a pair whose existing row has
\* slack_status 'sending', 'error' or 'skipped', the upgrade leaves that row's
\* slack_status and slack_error unchanged.
C15_UpgradeKeepsDelivery ==
  [][\A g \in AlertRunners : \A j \in Rows :
       (RunStep(g, "upgrade")
        /\ Get(alerts[j], "id") = Get(ra[g].existing, "id")
        /\ SlackStatus(j) \in {Str(sending), Str(error), Str(skipped)})
       => /\ SlackStatus(j)' = SlackStatus(j)
          /\ Get(alerts'[j], "slack_error") = Get(alerts[j], "slack_error")]_vars

\* C16: in a flush run, a failure while processing one alert (its invoice is
\* missing, a storage read or write raises) is caught and the run continues with
\* the remaining rows: no run ends with an error response.
C16_RowFailureIsolated ==
  \A f \in FlushRunners : fl[f].ret \in {"none", "ok"}

\* the rules of the invoice that run_alerts evaluates: the enabled ones
EnabledRules == {k \in 1..Len(Rules) : IsRuleEnabled(Rules[k])}

\* invocation g has just had a storage call of its upgrade path raise
UpgradeRaised(g) ==
  /\ ra[g].pc \in {"duplicate", "upgrade"}
  /\ ra'[g] # ra[g]
  /\ ledger'[PairIndex(g)].raised > ledger[PairIndex(g)].raised

C18_NeverServerError ==
  api.ret \in {"none", "ok"}

\* the request is answered in this step
Answers == api.ret = "none" /\ api'.ret = "ok"

\* the row with the columns read is in the response
Listed(r) == \E i \in 1..Len(api'.out) : api'.out[i].id = Get(r, "id")

\* the request has no status, slack_status or q filter and its limit is not
\* below the number of rows read
Unfiltered ==
  /\ api'.qn = <<>>
  /\ ~Truthy(api'.status)
  /\ ~Truthy(api'.slack_status)
  /\ api'.limit >= Len(api'.rows)

\* the invoice of the row's document as parsed_invoices holds it, None without one
LiveInvoice(r) ==
  IF Truthy(Get(r, "document_id")) /\ Get(r, "document_id") \in DOMAIN parsed_invoices
  THEN parsed_invoices[Get(r, "document_id")]
  ELSE None

\* the fee of a row: resolved from its cached evidence and its invoice, as
\* run_alerts and flush_alerts resolve it
ResolvedFee(r) == SecondFee(Candidate(r), LiveInvoice(r))

\* C19: an alert row read by /api/alerts is in the output, filters and limit
\* apart, if and only if its resolved fee has a non-empty fee_name and a
\* fee_amount > 0, and every row returned has a fee_amount > 0 and a non-empty
\* fee_name.
C19_ListedIffActionable ==
  [][Answers =>
       /\ Unfiltered =>
            \A j \in 1..Len(api'.rows) :
              ~PayloadRaises(api'.rows[j]) =>
                (Listed(api'.rows[j]) <=> FeeIsActionable(ResolvedFee(api'.rows[j])))
       /\ \A i \in 1..Len(api'.out) :
            /\ api'.out[i].fee_amount # None /\ api'.out[i].fee_amount.n > 0
            /\ Truthy(api'.out[i].fee_name)]_vars

\* the live invoice of the row holds a line item of the row's cached evidence,
\* now with total 0
WaivedSince(r) ==
  LET cached == CachedLineItems(PayloadOf(r))
      live == Get(LiveInvoice(r), "line_items")
  IN /\ live # None
     /\ \E i \in 1..Len(cached), h \in 1..Len(live.l) :
          /\ Get(live.l[h], "description") = Get(cached[i], "description")
          /\ Get(live.l[h], "total") = Num(0)

\* C20: a row whose cached evidence resolves to an actionable fee while the
\* live invoice shows that line item with total 0 is not in the output of
\* /api/alerts.
C20_LiveInvoiceDecides ==
  [][Answers =>
       \A j \in 1..Len(api'.rows) :
         (/\ ~PayloadRaises(api'.rows[j])
          /\ FeeIsActionable(Candidate(api'.rows[j]).fee)
          /\ WaivedSince(api'.rows[j])) => ~Listed(api'.rows[j])]_vars

\* the fee resolved, with charged_only=True, from the evidence a row holds and
\* the invoice the invocation read
FeeOfRow(row, rule, invoice) ==
  PickFeeDetails(CachedLineItems(PayloadOf(row)), Get(rule, "name"), invoice,
                 Get(rule, "name"), TRUE)

\* C21: run_alerts inserts or upgrades a row for a (rule, invoice) pair only
\* when the fee resolved from the match with charged_only=true has a non-empty
\* name and an amount > 0, and a row it creates holds evidence that resolves to
\* such a fee and starts with status 'pending' and slack_status 'pending'.
C21_OnlyActionableCreated ==
  [][\A g \in AlertRunners :
       /\ (RunStep(g, "insert") \/ RunStep(g, "upgrade")) =>
            FeeIsActionable(FeeProbe(Rules[ra[g].k], ra[g].invoice, ra[g].res))
       /\ (RunStep(g, "insert") /\ Len(alerts') > Len(alerts)) =>
            /\ Get(alerts'[Len(alerts')], "status") = Str(pending)
            /\ Get(alerts'[Len(alerts')], "slack_status") = Str(pending)
            /\ Get(alerts'[Len(alerts')], "rule_id") = Get(Rules[ra[g].k], "id")
            /\ FeeIsActionable(FeeOfRow(alerts'[Len(alerts')], Rules[ra[g].k],
                                        ra[g].invoice))]_vars

\* run_alerts has created a row and upgraded one, and an invocation that read
\* the waived invoice has evaluated its rules and returned without a row
C21_Witness ==
  /\ \E j \in Rows : Get(alerts[j], "match_payload") # None /\ ~ledger[j].upgraded
  /\ \E j \in Rows : ledger[j].upgraded
  /\ \E g \in AlertRunners :
       /\ ra[g].ret = "ok"
       /\ ra[g].invoice = InvoiceWaived
       /\ ra[g].evaluated = Cardinality(EnabledRules)
       /\ ra[g].matched_alerts = 0

\* invocation f is in its loop over the rows it read
InLoop(f) == fl[f].pc \in {"row", "claimed", "heal", "send", "posted"}

\* the rows before the one invocation f is at are not newer than it, the rows
\* after it are not older
OldestFirst(f) ==
  \A h \in 1..Len(fl[f].rows) :
    /\ h < fl[f].i => CreatedAtKey(fl[f].rows[h]) <= CreatedAtKey(FlushAt(f))
    /\ h > fl[f].i => CreatedAtKey(fl[f].rows[h]) >= CreatedAtKey(FlushAt(f))

\* C22: within one flush run the rows are visited in non-decreasing created_at
\* order: the run never goes back in the rows it read, every row before the one
\* it is at (the one it posts for) is not newer, and every row after is not older.
C22_OldestFirst ==
  [][\A f \in FlushRunners :
       /\ InLoop(f)' => OldestFirst(f)'
       /\ (InLoop(f) /\ InLoop(f)') =>
            /\ fl'[f].rows = fl[f].rows
            /\ fl'[f].i >= fl[f].i
       /\ \A j \in Rows :
            (ledger'[j].posts > ledger[j].posts /\ fl'[f] # fl[f]) =>
              /\ fl[f].pc = "send"
              /\ FlushIndex(f) = j]_vars

\* a run has posted for both rows of a table that returned the newer row first
C22_Witness ==
  /\ CreatedAtKey(alerts[1]) > CreatedAtKey(alerts[2])
  /\ \E f \in FlushRunners : fl[f].ret = "ok" /\ fl[f].sent + fl[f].errored = 2
  /\ \A j \in Rows : ledger[j].posts >= 1

\* invocation f read row j with slack_status 'sending', 'error', 'skipped' or 'sent'
ReadAsTaken(f, j) ==
  \E h \in 1..Len(fl[f].rows) :
    /\ Get(fl[f].rows[h], "id") = Get(alerts[j], "id")
    /\ SlackStatusOf(fl[f].rows[h]) \in {sending, error, skipped, sent}

\* C23: flush_alerts takes no action on a row it read with slack_status
\* 'sending' (likewise 'error', 'skipped', 'sent'): it neither claims nor posts
\* nor writes it; so a row left at 'sending' by a run that ended before its
\* terminal write stays 'sending' under the flush runs that follow.
C23_SendingIsLeftAlone ==
  [][\A j \in Rows :
       /\ \A f \in FlushRunners :
            (fl'[f] # fl[f] /\ ReadAsTaken(f, j)) =>
              /\ alerts'[j] = alerts[j]
              /\ ledger'[j] = ledger[j]
       /\ (SlackStatus(j) = Str(sending) /\ Settled(j)) =>
            SlackStatusNext(j) = Str(sending)]_vars

\* a run ended in an error response and left a row at 'sending'; a later run
\* read that row as 'sending' and has gone past it
C23_Witness ==
  \E f \in FlushRunners, g \in FlushRunners, j \in Rows :
    /\ fl[g].ret \in {"http404", "http500"}
    /\ SlackStatus(j) = Str(sending)
    /\ Settled(j)
    /\ InLoop(f)
    /\ \E h \in 1..(fl[f].i - 1) :
         /\ Get(fl[f].rows[h], "id") = Get(alerts[j], "id")
         /\ SlackStatusOf(fl[f].rows[h]) = sending

\* invocation f is past its claim of the row it is at and before the next row
Holding(f) == fl[f].pc \in {"claimed", "heal", "send", "posted"}

\* the step is the auto-heal by invocation f of the status='sent' row j
AutoHeals(f, j) ==
  /\ fl[f].pc = "row"
  /\ FlushIndex(f) = j
  /\ StatusOf(FlushAt(f)) = sent

\* C24: every write of slack_status 'sent', 'error' or 'skipped' by flush_alerts,
\* the auto-heal of a status='sent' row apart, is made by a run that holds the
\* row, and a run comes to hold a row only by the step in which its conditional
\* claim update of that row returned 1.
C24_TerminalWriteAfterClaim ==
  [][\A f \in FlushRunners :
       /\ \A j \in Rows :
            (/\ fl'[f] # fl[f]
             /\ alerts'[j] # alerts[j]
             /\ SlackStatusNext(j) \in {Str(sent), Str(error), Str(skipped)}) =>
              \/ AutoHeals(f, j)
              \/ Holding(f) /\ FlushIndex(f) = j
       /\ (Holding(f)' /\ ~Holding(f)) =>
            /\ fl[f].pc = "row"
            /\ fl'[f].i = fl[f].i
            /\ fl'[f].rows = fl[f].rows
            /\ ledger'[FlushIndex(f)].claims = ledger[FlushIndex(f)].claims + 1
            /\ SlackStatus(FlushIndex(f)) = Str(pending)
            /\ SlackStatusNext(FlushIndex(f)) = Str(sending)
       /\ (Holding(f)' /\ Holding(f)) =>
            /\ fl'[f].i = fl[f].i
            /\ fl'[f].rows = fl[f].rows]_vars

\* rows have been written 'sent', 'error' and 'skipped' by runs that had claimed
\* them, and a refused claim has happened
C24_Witness ==
  /\ \E j \in Rows : ledger[j].claims = 1 /\ SlackStatus(j) \in {Str(sent), Str(error)}
  /\ \E j \in Rows : ledger[j].claims = 1 /\ SlackStatus(j) = Str(skipped)
  /\ \E j \in Rows : ledger[j].refusals > 0


\* ------------------------------------------- rule_matches and the fee resolver,
\* ------------------------------------------- called on their own
\*
\* rule_matches(rule, invoice) and _pick_fee_details(...) are pure functions.
\* SpecCalls draws their arguments from bounded families of rules, invoices and
\* line items and applies them: rule_matches first, then one pass of the
\* `for rule in rules` loop of run_alerts over the same rule and invoice.

fuel == <<"f","u","e","l">>
catering == <<"c","a","t","e","r","i","n","g">>
AcmeJet == <<"A","c","m","e"," ","J","e","t">>

\* {key: v} when c holds, {} otherwise
Field(c, key, v) == IF c THEN (key :> v) ELSE EmptyDict

\* the checks of rule_matches, in the order of the source
Checks ==
  <<"enabled", "vendor", "doc_type", "airport", "review", "total", "handling_fee",
    "service_fee", "surcharge", "risk_score", "keywords", "charged">>

\* the reason rule_matches gives when a check fails
ReasonOfCheck ==
  [c \in {Checks[i] : i \in 1..Len(Checks)} |->
     CASE c = "enabled" -> "rule disabled"
       [] c = "vendor" -> "vendor not in vendor_normalized_in"
       [] c = "doc_type" -> "doc_type not in doc_type_in"
       [] c = "airport" -> "airport_code not in airport_code_in"
       [] c = "review" -> "invoice not review_required"
       [] c = "total" -> "total below min_total"
       [] c = "handling_fee" -> "handling_fee below min_handling_fee"
       [] c = "service_fee" -> "service_fee below min_service_fee"
       [] c = "surcharge" -> "surcharge below min_surcharge"
       [] c = "risk_score" -> "risk_score below min_risk_score"
       [] c = "keywords" -> "no keyword match"
       [] c = "charged" -> "no charged line item matches"]

\* the values of the families at three levels, 1 < 2 < 3: amounts of 50, 100 and
\* 150, risk scores of 1, 2 and 3. Invoice fields are at level 2.
Level(field, level) == Num(IF field = "risk_score" THEN level * 100 ELSE level * 5000)

\* A rule in which the checks of `failing` fail on OrderInvoice(failing); the
\* other checks are satisfied when `present`, and not configured otherwise.
OrderRule(failing, present) ==
  LET on(c) == c \in failing \/ present
      min(c) == Level(c, IF c \in failing THEN 3 ELSE 1)
  IN [id |-> r1, name |-> Str(HandlingFee)]
     @@ Field(TRUE, "is_enabled", Bool("enabled" \notin failing))
     @@ Field(on("vendor"), "vendor_normalized_in",
              List(<<Str(IF "vendor" \in failing THEN catering ELSE AcmeJet)>>))
     @@ Field(on("doc_type"), "doc_type_in",
              List(<<Str(IF "doc_type" \in failing THEN catering ELSE fuel)>>))
     @@ Field(on("airport"), "airport_code_in",
              List(<<Str(IF "airport" \in failing THEN <<"M","I","A">> ELSE <<"b","c","t">>)>>))
     @@ Field(on("review"), "require_review_required", Bool(TRUE))
     @@ Field(on("total"), "min_total", min("total"))
     @@ Field(on("handling_fee"), "min_handling_fee", min("handling_fee"))
     @@ Field(on("service_fee"), "min_service_fee", min("service_fee"))
     @@ Field(on("surcharge"), "min_surcharge", min("surcharge"))
     @@ Field(on("risk_score"), "min_risk_score", min("risk_score"))
     @@ Field(on("keywords"), "keywords",
              List(<<Str(IF "keywords" \in failing THEN catering ELSE handling)>>))
     @@ Field(on("charged"), "require_charged_line_items", Bool(TRUE))

\* the invoice OrderRule(failing, _) is matched against
OrderInvoice(failing) ==
  [id |-> p1, vendor_name |-> Str(AcmeJet), doc_type |-> Str(<<"F","u","e","l">>),
   airport_code |-> Str(<<"B","C","T">>), review_required |-> Bool("review" \notin failing),
   total |-> Level("total", 2), handling_fee |-> Level("handling_fee", 2),
   service_fee |-> Level("service_fee", 2), surcharge |-> Level("surcharge", 2),
   risk_score |-> Level("risk_score", 2),
   line_items |-> List(<<HandlingItem(Num(IF "charged" \in failing THEN 0 ELSE 15000))>>)]

\* a rule_matches call before it is made
RuleCall(family, rule, invoice) ==
  [pc |-> "rule", family |-> family, rule |-> rule, invoice |-> invoice]

OrderCalls ==
  {RuleCall("order", OrderRule(failing, present), OrderInvoice(failing))
   @@ [failing |-> failing]
     : failing \in SUBSET {Checks[i] : i \in 1..Len(Checks)}, present \in BOOLEAN}

\* the two enabled flags of a rule: absent, null, false or true each
FlagValues == {"absent", "null", "false", "true"}

Flag(key, value) ==
  CASE value = "absent" -> EmptyDict
    [] value = "null" -> (key :> None)
    [] value = "false" -> (key :> Bool(FALSE))
    [] value = "true" -> (key :> Bool(TRUE))

FlagRule(is_enabled, enabled) ==
  [id |-> r1, name |-> Str(HandlingFee), keywords |-> List(<<Str(handling)>>)]
  @@ Flag("is_enabled", is_enabled) @@ Flag("enabled", enabled)

FlagCalls ==
  {RuleCall("flags", FlagRule(is_enabled, enabled), invoice)
     : is_enabled \in FlagValues, enabled \in FlagValues,
       invoice \in {InvoiceCharged, InvoiceWaived}}

\* the five minimum thresholds of a rule and the five invoice fields they are
\* compared with: the minimum configured or not, the field missing, below the
\* minimum or equal to it
ThresholdFields == <<"total", "handling_fee", "service_fee", "surcharge", "risk_score">>

ThresholdOptions == {"missing", "below", "equal"}

MinKey(field) == "min_" \o field

ThresholdRule(configured) ==
  [id |-> r1, name |-> Str(HandlingFee), is_enabled |-> Bool(TRUE),
   keywords |-> List(<<Str(handling)>>)]
  @@ Field(1 \in configured, MinKey(ThresholdFields[1]), Level(ThresholdFields[1], 2))
  @@ Field(2 \in configured, MinKey(ThresholdFields[2]), Level(ThresholdFields[2], 2))
  @@ Field(3 \in configured, MinKey(ThresholdFields[3]), Level(ThresholdFields[3], 2))
  @@ Field(4 \in configured, MinKey(ThresholdFields[4]), Level(ThresholdFields[4], 2))
  @@ Field(5 \in configured, MinKey(ThresholdFields[5]), Level(ThresholdFields[5], 2))

InvoiceField(i, option) ==
  CASE option = "missing" -> EmptyDict
    [] option = "below" -> (ThresholdFields[i] :> Level(ThresholdFields[i], 1))
    [] option = "equal" -> (ThresholdFields[i] :> Level(ThresholdFields[i], 2))

ThresholdInvoice(options) ==
  [id |-> p1, vendor_name |-> Str(AcmeJet),
   line_items |-> List(<<HandlingItem(Num(15000))>>)]
  @@ InvoiceField(1, options[1]) @@ InvoiceField(2, options[2])
  @@ InvoiceField(3, options[3]) @@ InvoiceField(4, options[4])
  @@ InvoiceField(5, options[5])

\* risk scores that are not whole numbers (2.2, 2.9, 3) against minimums of 2.5
\* and 3, and one written as the text "2"
RiskCalls ==
  {RuleCall("thresholds", ThresholdRule({}) @@ [min_risk_score |-> min_risk_score],
            ThresholdInvoice([i \in 1..5 |-> "missing"]) @@ [risk_score |-> risk_score])
     : min_risk_score \in {Num(250), Num(300)},
       risk_score \in {Num(220), Num(290), Num(300), Str(<<"2">>)}}

ThresholdCalls ==
  {RuleCall("thresholds", ThresholdRule(configured), ThresholdInvoice(options))
     : configured \in SUBSET (1..5), options \in [1..5 -> ThresholdOptions]}
  \cup RiskCalls

\* the keywords a rule may list, in this order: "Handling " (a line item
\* description holds it), "ACME" (only the vendor name holds it), "fuel" (the
\* second line item holds it), "catering" (nothing holds it), a blank and a null
KeywordPool ==
  <<Str(<<"H","a","n","d","l","i","n","g"," ">>), Str(<<"A","C","M","E">>), Str(fuel),
    Str(catering), Str(<<" ">>), None>>

\* the keywords of KeywordPool at the positions of `chosen`, in the pool's order
RECURSIVE Chosen(_, _)
Chosen(chosen, i) ==
  IF i > Len(KeywordPool) THEN <<>>
  ELSE (IF i \in chosen THEN <<KeywordPool[i]>> ELSE <<>>) \o Chosen(chosen, i + 1)

\* a second line item, "Fuel" for 200
FuelItem ==
  [description |-> Str(<<"F","u","e","l">>), quantity |-> Num(100),
   unit_price |-> Num(20000), total |-> Num(20000)]

\* a line item that carries its text in `name`
NamedItem ==
  [name |-> Str(<<"F","u","e","l"," ","f","e","e">>), total |-> Num(300)]

\* the line_items of the keyword family; the third is a waived Handling Fee
\* (total 0, quantity 1, unit_price 150), the fourth one of a total of 0.01
KeywordLineItems ==
  {<<>>, <<HandlingItem(Num(15000))>>, <<HandlingItem(Num(0))>>, <<HandlingItem(Num(1))>>,
   <<HandlingItem(Num(0)), FuelItem>>, <<HandlingItem(Num(15000)), FuelItem>>, <<NamedItem>>}

KeywordInvoices ==
  {[id |-> p1, vendor_name |-> Str(AcmeJet), handling_fee |-> Num(5000)]}
  \cup {[id |-> p1, vendor_name |-> Str(AcmeJet), handling_fee |-> Num(5000),
         line_items |-> List(line_items)] : line_items \in KeywordLineItems}

KeywordRule(chosen, require_charged) ==
  [id |-> r1, name |-> Str(HandlingFee), is_enabled |-> Bool(TRUE),
   keywords |-> List(Chosen(chosen, 1))]
  @@ Field(require_charged, "require_charged_line_items", Bool(TRUE))

KeywordCalls ==
  {RuleCall("keywords", KeywordRule(chosen, require_charged), invoice)
     : chosen \in SUBSET (1..Len(KeywordPool)), require_charged \in BOOLEAN,
       invoice \in KeywordInvoices}

\* the names under which a rule might carry a per-line-item minimum amount; the
\* rules table has no such column and rule_matches reads no such key
LineMinimumKeys == {"min_line_item_amount", "min_line_item_total"}

\* rules that carry a per-line-item minimum of 100 next to the keywords
\* "Handling " and "fuel", against line items of 150, of 50, and of 50 and 200
LineMinimumCalls ==
  {RuleCall("line_minimum", KeywordRule({1, 3}, require_charged) @@ (key :> Num(10000)),
            [id |-> p1, vendor_name |-> Str(AcmeJet), line_items |-> List(line_items)])
     : key \in LineMinimumKeys, require_charged \in BOOLEAN,
       line_items \in {<<HandlingItem(Num(15000))>>, <<HandlingItem(Num(5000))>>,
                       <<HandlingItem(Num(5000)), FuelItem>>}}

\* the exceptions requests.request raises here: two transient ones and one that is
\* not
Exceptions == {ReadTimeout, ConnectionReset, SSLError}

\* _request_with_retry calls: tries from 0 to the default, and what each of up to
\* DefaultTries requests does
RequestCalls ==
  {[pc |-> "request", family |-> "request", tries |-> tries, outcomes |-> outcomes]
     : tries \in 0..DefaultTries,
       outcomes \in [1..DefaultTries -> {Response} \cup {Raises(e) : e \in Exceptions}]}

\* _request_with_retry(...) is called
RequestWithRetryCall ==
  /\ call.pc = "request"
  /\ call' = [call EXCEPT !.pc = "requested"]
             @@ [result |-> RequestWithRetry(0, call.tries, call.outcomes)]
  /\ UNCHANGED <<api, parsed_invoices, alerts, SLACK_WEBHOOK_URL, fl, ra, ledger, reparsed>>

\* one pass of `for rule in rules` of run_alerts: a rule that is not enabled is
\* passed over; an enabled one is evaluated, and goes on to safe_insert when it
\* matched and its fee probe is actionable
Iteration(rule, invoice, result) ==
  IF ~IsRuleEnabled(rule) THEN [evaluated |-> FALSE, insert |-> FALSE]
  ELSE [evaluated |-> TRUE,
        insert |-> result.matched /\ FeeIsActionable(FeeProbe(rule, invoice, result))]

\* rule_matches(rule, invoice) is called
RuleMatchesCall ==
  /\ call.pc = "rule"
  /\ call' = [call EXCEPT !.pc = "matched"] @@ [result |-> RuleMatches(call.rule, call.invoice)]
  /\ UNCHANGED <<api, parsed_invoices, alerts, SLACK_WEBHOOK_URL, fl, ra, ledger, reparsed>>

\* run_alerts takes the rule through one pass of its loop
RunIteration ==
  /\ call.pc = "matched"
  /\ call' = [call EXCEPT !.pc = "iterated"]
             @@ [iteration |-> Iteration(call.rule, call.invoice, call.result)]
  /\ UNCHANGED <<api, parsed_invoices, alerts, SLACK_WEBHOOK_URL, fl, ra, ledger, reparsed>>

\* a first line item for the fee resolver: quantity 1 and unit price 150; its
\* text a description, a name, neither, or a blank description; its total absent,
\* null, 0, "0" or 150, with or without a second amount field
FeeLineItem(text, total, amount) ==
  [quantity |-> Num(100), unit_price |-> Num(15000)] @@ text @@ total @@ amount

FeeLineItems ==
  {FeeLineItem(text, total, amount)
     : text \in {"description" :> Str(HandlingFee), "name" :> Str(ServiceFee), EmptyDict,
                 "description" :> Str(<<" ">>)},
       total \in {EmptyDict, "total" :> None, "total" :> Num(0), "total" :> Str(<<"0">>),
                  "total" :> Num(15000)},
       amount \in {EmptyDict, "amount" :> Num(12000)}}

\* the invoice the resolver is given, if any
FeeInvoices ==
  {None, EmptyDict, [id |-> p1, handling_fee |-> Num(5000)],
   [id |-> p1, handling_fee |-> Str(<<"$","5","0">>)], [id |-> p1, handling_fee |-> Num(0)],
   [id |-> p1, service_fee |-> Num(2500), surcharge |-> Num(1000)]}

FeeRuleNames ==
  {None, Str(HandlingFee), Str(ServiceFee), Str(SurchargeName),
   Str(<<"F","u","e","l"," ","w","a","t","c","h">>)}

\* a _pick_fee_details call before it is made
FeeCalls ==
  {[pc |-> "fee", family |-> "fee", matched_line_items |-> matched_line_items,
    fallback_fee_name |-> fallback_fee_name, invoice |-> invoice, rule_name |-> rule_name,
    charged_only |-> charged_only]
     : matched_line_items \in {<<>>} \cup {<<li>> : li \in FeeLineItems}
                               \cup {<<li, FuelItem>> : li \in FeeLineItems},
       fallback_fee_name \in {None, Str(HandlingFee)}, invoice \in FeeInvoices,
       rule_name \in FeeRuleNames, charged_only \in BOOLEAN}

\* _pick_fee_details(...) is called
PickFeeDetailsCall ==
  /\ call.pc = "fee"
  /\ call' = [call EXCEPT !.pc = "resolved"]
             @@ [fee |-> PickFeeDetails(call.matched_line_items, call.fallback_fee_name,
                                        call.invoice, call.rule_name, call.charged_only)]
  /\ UNCHANGED <<api, parsed_invoices, alerts, SLACK_WEBHOOK_URL, fl, ra, ledger, reparsed>>

InitCalls ==
  /\ parsed_invoices = [d \in {d1} |-> InvoiceCharged]
  /\ alerts = <<>>
  /\ SLACK_WEBHOOK_URL = TRUE
  /\ fl = [f \in FlushRunners |-> FlushNew]
  /\ ra = [g \in AlertRunners |-> AlertsNew]
  /\ ledger = <<>>
  /\ reparsed = 0
  /\ api = ApiNew
  /\ call \in OrderCalls \cup FlagCalls \cup ThresholdCalls \cup KeywordCalls \cup FeeCalls
             \cup LineMinimumCalls \cup RequestCalls

NextCalls ==
  \/ RuleMatchesCall
  \/ RunIteration
  \/ PickFeeDetailsCall
  \/ RequestWithRetryCall

SpecCalls == InitCalls /\ [][NextCalls]_vars


\* ---------------------------------------------------------------- C25 .. C30

\* rule_matches has returned
Returned == call.pc \in {"matched", "iterated"}

\* the line items of an invoice
LineItemsOf(invoice) == IF "line_items" \in DOMAIN invoice THEN invoice.line_items.l ELSE <<>>

\* the total of a line item is a positive amount
PositiveTotal(li) ==
  LET t == ToFloat(Get(li, "total")) IN t # None /\ t.n > 0

\* the non-empty normalized keywords of a rule
KeywordsOf(rule) ==
  LET listed == Listify(Get(rule, "keywords"))
  IN {Norm(listed[i]) : i \in {j \in 1..Len(listed) : listed[j] # None}} \ {<<>>}

\* a keyword of the rule is a substring of the line item's description
KeywordHit(rule, li) == \E kw \in KeywordsOf(rule) : Contains(kw, LineItemHay(li))

\* the rule is enabled and configures nothing but keywords and
\* require_charged_line_items
KeywordsOnly(rule) ==
  /\ DOMAIN rule \subseteq {"id", "name", "is_enabled", "keywords", "require_charged_line_items"}
  /\ Get(rule, "is_enabled") = Bool(TRUE)

\* the only line item is a waived Handling Fee (total 0, quantity 1, unit price
\* 150) and a keyword of the rule hits it
WaivedOnlyHit ==
  /\ KeywordsOnly(call.rule)
  /\ Get(call.rule, "require_charged_line_items") = Bool(TRUE)
  /\ LineItemsOf(call.invoice) = <<HandlingItem(Num(0))>>
  /\ KeywordHit(call.rule, HandlingItem(Num(0)))

\* C25: for a rule with require_charged_line_items true, rule_matches returns
\* matched=true only if a line item hit by a keyword has a positive total, and
\* every matched_line_item it returns then has a positive total; when the only
\* hit is a waived line item (total 0, quantity 1, unit price 150) the result is
\* matched=false with reason "no charged line item matches", and run_alerts does
\* not reach safe_insert for the rule.
C25_ChargedLineItemsOnly ==
  (Returned /\ Truthy(Get(call.rule, "require_charged_line_items"))) =>
    /\ call.result.matched =>
         /\ \E i \in 1..Len(LineItemsOf(call.invoice)) :
              /\ KeywordHit(call.rule, LineItemsOf(call.invoice)[i])
              /\ PositiveTotal(LineItemsOf(call.invoice)[i])
         /\ \A i \in 1..Len(call.result.matched_line_items) :
              PositiveTotal(call.result.matched_line_items[i])
    /\ WaivedOnlyHit =>
         /\ ~call.result.matched
         /\ call.result.reason = "no charged line item matches"
         /\ call.pc = "iterated" => ~call.iteration.insert

\* a waived Handling Fee was the only hit of a rule that requires charged line
\* items, and run_alerts has passed the rule over
C25_Witness ==
  /\ call.pc = "iterated"
  /\ WaivedOnlyHit
  /\ call.result.reason = "no charged line item matches"
  /\ call.iteration.evaluated /\ ~call.iteration.insert


\* _pick_fee_details has returned from a call with charged_only=True whose first
\* matched line item is waived (_is_waived_line_item: quantity > 0, unit price > 0,
\* total 0 or absent)
WaivedResolved ==
  /\ call.pc = "resolved"
  /\ call.charged_only
  /\ call.matched_line_items # <<>>
  /\ IsWaivedLineItem(call.matched_line_items[1])

\* C26 as stated: with charged_only=true the fee resolver never produces an
\* actionable result for a waived first line item, whatever invoice and rule
\* name are supplied.
C26_WaivedNeverActionable ==
  WaivedResolved => ~FeeIsActionable(call.fee)

\* the values of the amount fields of a line item
AmountsOf(li) == {ToFloat(Get(li, amount_keys[i])) : i \in 1..Len(amount_keys)}

\* the invoice sub-fee field the rule name selects: the first of "handling",
\* "service", "surcharge" the lower-cased name contains
SubFeeField(rule_name) ==
  LET rn == IF rule_name = None THEN <<>> ELSE Lower(rule_name.s)
  IN IF Contains(handling, rn) THEN "handling_fee"
     ELSE IF Contains(service, rn) THEN "service_fee"
     ELSE IF Contains(surcharge, rn) THEN "surcharge"
     ELSE "none"

\* the value of that field in the invoice supplied, None without one
SubFeeOf(invoice, rule_name) ==
  IF invoice = None THEN None ELSE Get(invoice, SubFeeField(rule_name))

\* an amount is positive
PositiveAmount(v) == LET x == ToFloat(v) IN x # None /\ x.n > 0

\* C26, amended: with charged_only=true and a waived first line item, the amount
\* the fee resolver returns is null, the value of one of the line item's amount
\* fields, or the invoice sub-fee field selected by the rule name; the result is
\* actionable only if one of the line item's amount fields is positive or that
\* invoice sub-fee field is; no amount is synthesized from quantity times unit
\* price.
C26_WaivedActionableOnlyByOtherAmount ==
  WaivedResolved =>
    /\ call.fee.fee_amount \in {None} \cup AmountsOf(call.matched_line_items[1])
                                \cup {SubFeeOf(call.invoice, call.rule_name)}
    /\ FeeIsActionable(call.fee) =>
         \/ \E v \in AmountsOf(call.matched_line_items[1]) : PositiveAmount(v)
         \/ PositiveAmount(SubFeeOf(call.invoice, call.rule_name))

\* a waived first line item with no positive amount field, resolved with
\* charged_only=True to the invoice's handling_fee through the rule name
C26_Witness ==
  /\ WaivedResolved
  /\ \A v \in AmountsOf(call.matched_line_items[1]) : ~PositiveAmount(v)
  /\ call.rule_name = Str(HandlingFee)
  /\ FeeIsActionable(call.fee)
  /\ call.fee.fee_amount = Get(call.invoice, "handling_fee")


\* at least one of is_enabled and enabled is true
EitherFlag(rule) ==
  Get(rule, "is_enabled") = Bool(TRUE) \/ Get(rule, "enabled") = Bool(TRUE)

\* is_enabled decides when it is present and not null, enabled otherwise
FirstFlag(rule) ==
  IF Get(rule, "is_enabled") = None THEN Get(rule, "enabled") = Bool(TRUE)
  ELSE Get(rule, "is_enabled") = Bool(TRUE)

\* C27 as stated: a rule is enabled iff at least one of is_enabled and enabled
\* is truthy; rule_matches answers "rule disabled" exactly for the other rules,
\* and run_alerts evaluates exactly the enabled ones.
C27_EnabledIfEitherFlag ==
  Returned =>
    /\ (call.result.reason = "rule disabled") <=> ~EitherFlag(call.rule)
    /\ call.pc = "iterated" => (call.iteration.evaluated <=> EitherFlag(call.rule))

\* C27, amended: a rule is enabled iff is_enabled is truthy, or is_enabled is
\* absent or null and enabled is truthy, for every combination of the two fields
\* (each of absent, null, false, true); rule_matches returns matched=false with
\* reason "rule disabled" exactly for the rules that are not enabled, and
\* run_alerts evaluates exactly the enabled rules.
C27_EnabledByFirstFlag ==
  Returned =>
    /\ (call.result.reason = "rule disabled") <=> ~FirstFlag(call.rule)
    /\ ~FirstFlag(call.rule) => ~call.result.matched
    /\ call.pc = "iterated" => (call.iteration.evaluated <=> FirstFlag(call.rule))

\* a rule with is_enabled false and enabled true was answered "rule disabled"
\* and passed over by run_alerts
C27_Witness ==
  /\ call.pc = "iterated"
  /\ Get(call.rule, "is_enabled") = Bool(FALSE)
  /\ Get(call.rule, "enabled") = Bool(TRUE)
  /\ call.result.reason = "rule disabled"
  /\ ~call.iteration.evaluated


\* the minimum a rule sets for an invoice field and the value of that field, as
\* numbers (None when absent or not a number)
MinOf(rule, field) == ToFloat(Get(rule, MinKey(field)))
ValueFor(invoice, field) == ToFloat(Get(invoice, field))

\* C28 as stated: a rule with a minimum for total, handling_fee, service_fee,
\* surcharge or risk_score matches only when the invoice field is present and at
\* least the minimum, also when the invoice field is missing.
C28_MinimumAlwaysEnforced ==
  Returned =>
    \A i \in 1..Len(ThresholdFields) :
      (MinOf(call.rule, ThresholdFields[i]) # None /\ call.result.matched) =>
        /\ ValueFor(call.invoice, ThresholdFields[i]) # None
        /\ ValueFor(call.invoice, ThresholdFields[i]).n >= MinOf(call.rule, ThresholdFields[i]).n

\* the invoice field is present and below the rule's minimum for it; risk scores
\* are compared as whole numbers, fractions cut off
BelowMinimum(rule, invoice, field) ==
  /\ MinOf(rule, field) # None
  /\ ValueFor(invoice, field) # None
  /\ IF field = "risk_score"
     THEN (ValueFor(invoice, field).n \div 100) < (MinOf(rule, field).n \div 100)
     ELSE ValueFor(invoice, field).n < MinOf(rule, field).n

\* the first threshold field, in the order of ThresholdFields, that is below its
\* minimum; 0 when none is
FirstBelow(rule, invoice) ==
  LET below == {i \in 1..Len(ThresholdFields) : BelowMinimum(rule, invoice, ThresholdFields[i])}
  IN IF below = {} THEN 0 ELSE CHOOSE i \in below : \A j \in below : i <= j

\* the reasons of the checks that come before the thresholds
EarlierReasons == {ReasonOfCheck[Checks[i]] : i \in 1..5}

\* C28, amended: if a rule has a min_total and the invoice total is present,
\* rule_matches returns matched=true only when the total is >= min_total; when it
\* is below, the result is matched=false, with reason "total below min_total"
\* unless an earlier check failed. The same holds for min_handling_fee,
\* min_service_fee, min_surcharge and min_risk_score (risk scores compared as
\* whole numbers), each in this order. When the invoice field is missing the
\* minimum is not enforced: a rule with nothing else to fail matches exactly when
\* no present field is below its minimum.
C28_MinimumEnforcedWhenPresent ==
  Returned =>
    LET first == FirstBelow(call.rule, call.invoice)
    IN /\ first # 0 =>
            /\ ~call.result.matched
            /\ call.result.reason \in
                 EarlierReasons \cup {ReasonOfCheck[ThresholdFields[first]]}
       /\ call.family = "thresholds" => (call.result.matched <=> first = 0)

\* a rule with a min_total matched an invoice that has no total
C28_Witness ==
  /\ Returned
  /\ MinOf(call.rule, "total") # None
  /\ "total" \notin DOMAIN call.invoice
  /\ call.result.matched


\* the first of the checks, in the order of Checks, that is in `failing`; 0 when
\* none is
FirstFailing(failing) ==
  LET at == {i \in 1..Len(Checks) : Checks[i] \in failing}
  IN IF at = {} THEN 0 ELSE CHOOSE i \in at : \A j \in at : i <= j

\* C29: rule_matches applies its checks in the order enabled, vendor allow-list,
\* doc-type allow-list, airport allow-list, review-required, minimum thresholds,
\* keywords, charged line items, and returns at the first that fails: a rule on
\* which several checks fail is answered with the reason of the first of them, a
\* rule on which none fails matches, and every failing result has matched=false
\* and no matched_line_items.
C29_FirstFailingCheckAnswers ==
  Returned =>
    /\ ~call.result.matched => call.result.matched_line_items = <<>>
    /\ call.family = "order" =>
         IF call.failing = {} THEN call.result.matched
         ELSE /\ ~call.result.matched
              /\ call.result.reason = ReasonOfCheck[Checks[FirstFailing(call.failing)]]

\* a rule whose vendor allow-list, min_total and keywords all fail on the
\* invoice, the other checks being configured and satisfied, was answered with
\* the vendor reason
C29_Witness ==
  /\ Returned
  /\ call.family = "order"
  /\ call.failing = {"vendor", "total", "keywords"}
  /\ "doc_type_in" \in DOMAIN call.rule
  /\ call.result.reason = "vendor not in vendor_normalized_in"
  /\ call.result.matched_line_items = <<>>


\* rule_matches has answered a rule that lists at least one keyword, and none of
\* the checks before the keywords has failed
KeywordsAnswered ==
  /\ Returned
  /\ \E i \in 1..Len(Listify(Get(call.rule, "keywords"))) :
       Listify(Get(call.rule, "keywords"))[i] # None
  /\ call.result.reason \notin {ReasonOfCheck[Checks[i]] : i \in 1..10}

\* the normalized text of a line item: its description, else its name, else its
\* desc
TextOf(li) ==
  LET present == SelectSeq(<<Get(li, "description"), Get(li, "name"), Get(li, "desc")>>,
                           LAMBDA v : v # None /\ v # Str(<<>>))
  IN IF present = <<>> THEN <<>> ELSE Lower(Strip(present[1].s))

\* the keywords of the rule that are a substring of a line item's text or of the
\* invoice-text blob
Hits(rule, invoice, text(_)) ==
  {kw \in KeywordsOf(rule) :
     \/ Contains(kw, InvoiceText(invoice))
     \/ \E i \in 1..Len(LineItemsOf(invoice)) : Contains(kw, text(LineItemsOf(invoice)[i]))}

\* the line items whose own text contains a keyword of the rule
HitItems(rule, invoice, text(_)) ==
  SelectSeq(LineItemsOf(invoice), LAMBDA li : \E kw \in KeywordsOf(rule) : Contains(kw, text(li)))

\* the description of a line item, normalized
DescriptionOf(li) == Norm(Get(li, "description"))

\* C30 as stated: a rule with at least one keyword fails with "no keyword match"
\* exactly when no keyword is a substring of a line item description or of the
\* invoice-text blob; otherwise matched_keywords is the sorted set of the keywords
\* that hit, and matched_line_items are exactly the line items whose own
\* description contains a keyword.
C30_AllDescriptionHits ==
  KeywordsAnswered =>
    /\ (call.result.reason = "no keyword match")
         <=> Hits(call.rule, call.invoice, DescriptionOf) = {}
    /\ call.result.reason # "no keyword match" =>
         /\ call.result.matched_keywords = Sorted(Hits(call.rule, call.invoice, DescriptionOf))
         /\ call.result.matched_line_items = HitItems(call.rule, call.invoice, DescriptionOf)

\* the total of a line item exceeds 0.01
Charged(li) == LET t == ToFloat(Get(li, "total")) IN t # None /\ t.n > 1

\* C30, amended: a rule with at least one keyword fails with "no keyword match"
\* exactly when no normalized keyword is a substring of any line item's text
\* (description, else name, else desc) or of the invoice-text blob; otherwise
\* matched_keywords is the sorted set of all keywords that hit a line item's
\* text or the blob, and matched_line_items are exactly the line items whose own
\* text contains a keyword, without those whose total does not exceed 0.01 when
\* the rule has require_charged_line_items (a keyword hitting only the blob adds
\* no line item).
C30_HitsAndChargedItems ==
  KeywordsAnswered =>
    /\ (call.result.reason = "no keyword match")
         <=> Hits(call.rule, call.invoice, TextOf) = {}
    /\ call.result.reason # "no keyword match" =>
         /\ call.result.matched_keywords = Sorted(Hits(call.rule, call.invoice, TextOf))
         /\ call.result.matched_line_items =
              SelectSeq(HitItems(call.rule, call.invoice, TextOf),
                        LAMBDA li : Truthy(Get(call.rule, "require_charged_line_items"))
                                      => Charged(li))

\* a rule that requires charged line items matched on "handling" and "fuel", the
\* vendor-only keyword "acme" among its matched_keywords, and returned the
\* charged Fuel item without the waived Handling Fee that was hit too
C30_Witness ==
  /\ KeywordsAnswered
  /\ Truthy(Get(call.rule, "require_charged_line_items"))
  /\ LineItemsOf(call.invoice) = <<HandlingItem(Num(0)), FuelItem>>
  /\ call.result.matched
  /\ call.result.matched_keywords = <<<<"a","c","m","e">>, fuel, handling>>
  /\ call.result.matched_line_items = <<FuelItem>>


\* ---------------------------------------------------------------- C31 .. C38

\* the per-line-item minimum of a rule, None when it has none
LineMinimumOf(rule) ==
  IF \E key \in LineMinimumKeys : key \in DOMAIN rule
  THEN ToFloat(rule[CHOOSE key \in LineMinimumKeys : key \in DOMAIN rule])
  ELSE None

\* the total of a line item is at least m
MeetsMinimum(li, m) ==
  LET t == ToFloat(Get(li, "total")) IN t # None /\ t.n >= m.n

\* C31: if a rule specifies a per-line-item minimum amount, rule_matches returns
\* no line item whose total is below it, and returns matched=false when no
\* keyword-hit line item meets it.
C31_LineItemMinimum ==
  (Returned /\ LineMinimumOf(call.rule) # None) =>
    /\ \A i \in 1..Len(call.result.matched_line_items) :
         MeetsMinimum(call.result.matched_line_items[i], LineMinimumOf(call.rule))
    /\ (\A i \in 1..Len(LineItemsOf(call.invoice)) :
          KeywordHit(call.rule, LineItemsOf(call.invoice)[i])
            => ~MeetsMinimum(LineItemsOf(call.invoice)[i], LineMinimumOf(call.rule)))
         => ~call.result.matched


\* _pick_fee_details has returned from a call with matched line items
ResolvedFromItems == call.pc = "resolved" /\ call.matched_line_items # <<>>

\* the first of the values that is neither null, empty nor false
FirstSet(values) ==
  LET set == SelectSeq(values, LAMBDA v : Truthy(v))
  IN IF set = <<>> THEN None ELSE set[1]

\* the name the first line item gives the fee: its description, else its name,
\* else the fallback name (the fallback given, else the rule name, else "Fee")
NameFrom(li, fallback_fee_name, rule_name) ==
  FirstSet(<<Get(li, "description"), Get(li, "name"), fallback_fee_name, rule_name, Str(Fee)>>)

\* the positions in amount_keys of the fields of li that hold a positive number
PositiveKeys(li) == {i \in 1..Len(amount_keys) : PositiveAmount(Get(li, amount_keys[i]))}

\* the value of the first of them
FirstAmount(li) ==
  ToFloat(Get(li, amount_keys[CHOOSE i \in PositiveKeys(li) : \A j \in PositiveKeys(li) : i <= j]))

\* C32 as stated: with matched line items the fee resolver uses only the first:
\* fee_name is its description, else its name, else the fallback, and fee_amount
\* is the value of the first amount field that holds a positive number.
C32_FirstItemNamesTheFee ==
  ResolvedFromItems =>
    /\ call.fee.fee_name =
         NameFrom(call.matched_line_items[1], call.fallback_fee_name, call.rule_name)
    /\ PositiveKeys(call.matched_line_items[1]) # {} =>
         call.fee.fee_amount = FirstAmount(call.matched_line_items[1])

\* the name is blank and the amount comes from the invoice sub-fee field the rule
\* name selects
LabelledBySubFee ==
  /\ Strip(NameFrom(call.matched_line_items[1], call.fallback_fee_name, call.rule_name).s) = <<>>
  /\ call.fee.fee_amount = SubFeeOf(call.invoice, call.rule_name)
  /\ call.fee.fee_amount \notin {None, Str(<<>>)}
  /\ call.fee.fee_name \in {Str(HandlingFee), Str(ServiceFee), Str(SurchargeName)}

\* C32, amended: with matched line items the fee resolver uses only the first:
\* fee_amount is the value of the first field, in the order total, amount,
\* line_total, extended, ext_amount, value, subtotal, charge, that holds a
\* positive number, and fee_name is the item's description (else its name, else
\* the fallback), except that a blank name is replaced by the label of the
\* invoice sub-fee when no amount field is positive and the amount is taken from
\* that sub-fee; later matched line items never affect the result. A first item
\* {description "Handling Fee", total 150} gives fee_name "Handling Fee",
\* fee_amount 150.
C32_FirstItemDecides ==
  ResolvedFromItems =>
    /\ IF PositiveKeys(call.matched_line_items[1]) # {}
       THEN /\ call.fee.fee_amount = FirstAmount(call.matched_line_items[1])
            /\ call.fee.fee_name =
                 NameFrom(call.matched_line_items[1], call.fallback_fee_name, call.rule_name)
       ELSE \/ call.fee.fee_name =
                 NameFrom(call.matched_line_items[1], call.fallback_fee_name, call.rule_name)
            \/ LabelledBySubFee
    /\ (/\ Get(call.matched_line_items[1], "description") = Str(HandlingFee)
        /\ Get(call.matched_line_items[1], "total") = Num(15000))
         => call.fee = [fee_name |-> Str(HandlingFee), fee_amount |-> Num(15000)]

\* a first item with total 0 and amount 120, followed by a Fuel item of 200,
\* resolved to the first item's name and to 120
C32_Witness ==
  /\ ResolvedFromItems
  /\ Len(call.matched_line_items) = 2
  /\ Get(call.matched_line_items[1], "total") = Num(0)
  /\ Get(call.matched_line_items[1], "name") = Str(ServiceFee)
  /\ call.fee = [fee_name |-> Str(ServiceFee), fee_amount |-> Num(12000)]


\* C33: no flush_alerts invocation that has ended leaves a row it claimed in
\* slack_status 'sending': a row that is 'sending' is held by an invocation
\* that is still at work on it.
C33_NoSendingLeftBehind ==
  \A j \in 1..Len(alerts) :
    Get(alerts[j], "slack_status") = Str(sending) =>
      \E f \in FlushRunners :
        Holding(f) /\ Get(fl[f].rows[fl[f].i], "id") = Get(alerts[j], "id")


\* _request_with_retry has returned or raised
Requested == call.pc = "requested"

\* the i-th request raised a transient exception (a read timeout or a
\* connection reset)
TransientAt(i) ==
  call.outcomes[i].k = "raise" /\ call.outcomes[i].e \in {ReadTimeout, ConnectionReset}

\* C38: a storage request makes at most `tries` attempts and ends with a
\* response or an exception; it makes another attempt only after a transient
\* exception, raises an exception that is not transient when it first occurs,
\* and raises the last exception after the final attempt.
C38_BoundedRetry ==
  Requested =>
    LET n == call.result.attempts
    IN /\ n <= call.tries
       /\ call.result.outcome.k \in {"response", "raise"}
       /\ \A i \in 1..(n - 1) : TransientAt(i)
       /\ n >= 1 => call.result.outcome = call.outcomes[n]
       /\ (n >= 1 /\ call.result.outcome.k = "raise") => (~TransientAt(n) \/ n = call.tries)
       /\ n = 0 => (call.tries = 0 /\ call.result.outcome.k = "raise")

\* four attempts all failed with a transient exception and the last one, a
\* connection reset after three read timeouts, was raised
C38_Witness ==
  /\ Requested
  /\ call.tries = DefaultTries
  /\ \A i \in 1..3 : call.outcomes[i] = Raises(ReadTimeout)
  /\ call.result = [attempts |-> 4, outcome |-> Raises(ConnectionReset)]


\* C34: a row moved to 'sending' by an invocation's own claim request is
\* processed by that invocation: the step of invocation f in which its claim
\* PATCH moves the row it is at to 'sending' takes f on with that row.
C34_OwnClaimIsProcessed ==
  [][\A f \in FlushRunners :
       (/\ FlushStep(f, "row")
        /\ Get(alerts[FlushIndex(f)], "slack_status") # Str(sending)
        /\ Get(alerts'[FlushIndex(f)], "slack_status") = Str(sending))
         => (fl'[f].pc = "claimed" /\ fl'[f].i = fl[f].i)]_vars


\* C35: with flush_alerts invoked again and again, no storage or Slack call
\* raising and no run_alerts at work, every alert row with slack_status
\* 'pending' eventually has slack_status 'sent', 'error' or 'skipped'.
C35_PendingIsDelivered ==
  \A j \in 1..2 :
    (Len(alerts) >= j /\ Get(alerts[j], "slack_status") = Str(pending))
      ~> (Get(alerts[j], "slack_status") \in {Str(sent), Str(error), Str(skipped)})


\* the rows a step wrote: those it added and those it changed
Written(j) == j > Len(alerts) \/ alerts'[j] # alerts[j]

InFlightOrSent(row) == Get(row, "slack_status") \in {Str(sending), Str(sent)}

\* C36: every write of run_alerts and flush_alerts that leaves a row's
\* slack_status 'sending' or 'sent' leaves its slack_error null, and so in every
\* state reached from rows that run_alerts created a row with slack_status
\* 'sending' or 'sent' has slack_error null.
C36_SlackErrorCleared ==
  /\ [][\A j \in 1..Len(alerts') :
         (Written(j) /\ InFlightOrSent(alerts'[j])) => Get(alerts'[j], "slack_error") = None]_vars
  /\ [](\A j \in 1..Len(alerts) :
         InFlightOrSent(alerts[j]) => Get(alerts[j], "slack_error") = None)

\* a row that run_alerts wrote again after a failed post has been posted a
\* second time and is 'sent': the error text of the first post is gone
C36_Witness ==
  \E j \in 1..Len(alerts) :
    /\ ledger[j].posts >= 2
    /\ ledger[j].upgraded
    /\ Get(alerts[j], "slack_status") = Str(sent)
    /\ Get(alerts[j], "slack_error") = None

\* sent + errored of an invocation's locals, and whether the invocation is under way
Posted(me) == me.sent + me.errored
Running(f) == fl[f].pc \notin {"new", "done"}

\* C37: in one flush_alerts run sent + errored never exceeds the limit, which is
\* clamped to 1..100; a row written 'skipped' and a status='sent' row that is
\* auto-healed leave sent + errored as they were; and the run is at work on a
\* row (its claim included) only while sent + errored is below the limit.
C37_PostsWithinLimit ==
  /\ [](\A f \in FlushRunners :
          Running(f) => fl[f].limit \in 1..100 /\ Posted(fl[f]) < fl[f].limit)
  /\ [][\A f \in FlushRunners :
          Running(f) =>
            /\ Posted(fl'[f]) <= fl[f].limit
            /\ fl'[f].pc # "done" => fl'[f].limit = fl[f].limit
            /\ fl'[f].skipped > fl[f].skipped => Posted(fl'[f]) = Posted(fl[f])
            /\ (FlushStep(f, "row") /\ StatusOf(FlushAt(f)) = sent)
                 => Posted(fl'[f]) = Posted(fl[f])]_vars

\* a run has returned with one post counted, and a row it had read as 'pending'
\* is still 'pending', never claimed: the limit of 1 ended the run before it
C37_Witness ==
  /\ fl[1].pc = "done" /\ fl[1].ret = "ok" /\ Posted(fl[1]) = 1
  /\ fl[2].pc = "new"
  /\ \E j \in 1..Len(alerts) :
       /\ Get(alerts[j], "slack_status") = Str(pending)
       /\ StatusOf(alerts[j]) # sent
       /\ ledger[j] = LedgerNew

====
